---- MODULE Spec2Model ----
(***************************************************************************)
(* ratio-gang-cli: the asset classifier, the dispatcher, the three         *)
(* provider adapters, the ratio computation and the three output forms.    *)
(* Strings are sequences of characters; f64 values are sign, odd binary     *)
(* mantissa (15-bit limbs) and exponent, rounded as IEEE-754 binary64.     *)
(***************************************************************************)
EXTENDS Integers, Sequences, FiniteSets, TLC

VARIABLES
    argv,       \* the arguments of the command line after the program name
    env,        \* the process environment: POLYGON_KEY and COINGECKO_KEY
    cli,        \* the parsed command line (struct Cli)
    pc,         \* where main is: parse, get_required_envs, fetch_a, fetch_b,
                \* present, exited
    apikeys,    \* the ApiKeys main holds
    requests,   \* the URLs of the requests issued so far, in order
    left_hand_market_cap,   \* the result of the dispatcher for asset_a
    right_hand_market_cap,  \* the result of the dispatcher for asset_b
    stdout,     \* the lines printed on standard output
    stderr,     \* the errors and panic messages printed on standard error
    exit_status,    \* the exit status once pc = "exited"
    cid,        \* SpecClassify: the identifier handed to the classifier
    cclass,     \* SpecClassify: the class it returned ("none" before the call)
    ad_call,    \* SpecAdapter: the adapter called, its arguments, the outcome
    ad_ret,     \* SpecAdapter: what the call returned
    rt_in,      \* SpecRatio: two identifiers, their caps and the flags
    rt_ab,      \* SpecRatio: the presentation of (asset_a, asset_b)
    rt_ba       \* SpecRatio: the presentation of (asset_b, asset_a)

mainvars == <<argv, env, cli, pc, apikeys, requests, left_hand_market_cap,
              right_hand_market_cap, stdout, stderr, exit_status>>
cvars == <<cid, cclass>>
advars == <<ad_call, ad_ret>>
rtvars == <<rt_in, rt_ab, rt_ba>>
vars == <<mainvars, cvars, advars, rtvars>>

(***************************************************************************)
(* Characters.  An ASCII character is the one-character string of itself;  *)
(* the other characters of the model are named: "eszett" is U+00DF (it     *)
(* uppercases to the two characters SS), "I_dot" is U+0130 (it lowercases  *)
(* to i followed by "combining_dot", U+0307), "dotless_i" is U+0131 (it    *)
(* uppercases to I), "Dz_title" is the titlecase letter U+01C5 (between    *)
(* "DZ_upper", U+01C4, and "dz_lower", U+01C6), and "zhong" is U+4E2D, a   *)
(* letter without case.  The table Ascii, with the URLs, names the ASCII   *)
(* characters that cannot be written as a string of one character.         *)
(***************************************************************************)
LowerAscii ==
    <<"a", "b", "c", "d", "e", "f", "g", "h", "i", "j", "k", "l", "m",
      "n", "o", "p", "q", "r", "s", "t", "u", "v", "w", "x", "y", "z">>
UpperAscii ==
    <<"A", "B", "C", "D", "E", "F", "G", "H", "I", "J", "K", "L", "M",
      "N", "O", "P", "Q", "R", "S", "T", "U", "V", "W", "X", "Y", "Z">>

Range(f) == {f[i] : i \in DOMAIN f}
IndexIn(f, c) == CHOOSE i \in DOMAIN f : f[i] = c

Digits == <<"0", "1", "2", "3", "4", "5", "6", "7", "8", "9">>

\* the position of the first character of s that is in set, 0 without one
FirstIndex(s, set) ==
    IF \E i \in DOMAIN s : s[i] \in set
    THEN CHOOSE i \in DOMAIN s :
             s[i] \in set /\ \A j \in 1..(i - 1) : s[j] \notin set
    ELSE 0

\* char::to_uppercase: the characters a character uppercases to
UpperOf(c) ==
    IF c \in Range(LowerAscii) THEN <<UpperAscii[IndexIn(LowerAscii, c)]>>
    ELSE CASE c = "eszett" -> <<"S", "S">>
           [] c = "dotless_i" -> <<"I">>
           [] c = "dz_lower" -> <<"DZ_upper">>
           [] c = "Dz_title" -> <<"DZ_upper">>
           [] OTHER -> <<c>>

\* char::to_lowercase
LowerOf(c) ==
    IF c \in Range(UpperAscii) THEN <<LowerAscii[IndexIn(UpperAscii, c)]>>
    ELSE CASE c = "I_dot" -> <<"i", "combining_dot">>
           [] c = "DZ_upper" -> <<"dz_lower">>
           [] c = "Dz_title" -> <<"dz_lower">>
           [] OTHER -> <<c>>

\* str::to_uppercase
RECURSIVE to_uppercase(_)
to_uppercase(s) ==
    IF s = <<>> THEN <<>> ELSE UpperOf(Head(s)) \o to_uppercase(Tail(s))

\* str::to_lowercase
RECURSIVE to_lowercase(_)
to_lowercase(s) ==
    IF s = <<>> THEN <<>> ELSE LowerOf(Head(s)) \o to_lowercase(Tail(s))

str_gold == <<"g", "o", "l", "d">>
str_Gold == <<"G", "o", "l", "d">>

\* a classifier that forgets the capitalised spelling of gold
identify_market_cap_type_no_capital_gold(market_cap) ==
    IF market_cap = str_gold THEN "Gold"
    ELSE IF market_cap = to_uppercase(market_cap) THEN "Stock"
    ELSE IF market_cap = to_lowercase(market_cap) THEN "Crypto"
    ELSE "Unknown"

\* main.rs identify_market_cap_type: the match arms in their order
identify_market_cap_type(market_cap) ==
    IF market_cap = str_gold \/ market_cap = str_Gold THEN "Gold"
    ELSE IF market_cap = to_uppercase(market_cap) THEN "Stock"
    ELSE IF market_cap = to_lowercase(market_cap) THEN "Crypto"
    ELSE "Unknown"

(***************************************************************************)
(* Natural numbers of any size: little-endian sequences of 15-bit limbs    *)
(* without a most significant zero limb (<<>> is 0).  They carry f64       *)
(* mantissas and the u32, u64 and usize results of the `as` casts.          *)
(***************************************************************************)
Base == 2 ^ 15

Max2(a, b) == IF a >= b THEN a ELSE b

RECURSIVE Pow2(_)
Pow2(k) == IF k = 0 THEN 1 ELSE 2 * Pow2(k - 1)

\* x without its most significant zero limbs
BigNorm(x) ==
    IF \A i \in DOMAIN x : x[i] = 0 THEN <<>>
    ELSE SubSeq(x, 1, CHOOSE i \in DOMAIN x :
                          x[i] # 0 /\ \A j \in (i + 1)..Len(x) : x[j] = 0)

BigOfInt(n) ==
    IF n = 0 THEN <<>>
    ELSE IF n < Base THEN <<n>>
    ELSE IF n < Base * Base THEN <<n % Base, n \div Base>>
    ELSE <<n % Base, (n \div Base) % Base, n \div (Base * Base)>>

\* only for numbers below Base * Base
BigToInt(x) ==
    IF x = <<>> THEN 0
    ELSE IF Len(x) = 1 THEN x[1]
    ELSE x[1] + Base * x[2]

\* the i-th limb of x, 0 above its length
LimbAt(x, i) == IF i <= Len(x) THEN x[i] ELSE 0

\* the limbs s and the carry out c of two ranges of limbs, the carry out of
\* the low range being the carry in of the high one
BigAddJoin(lo, hi) == [s |-> lo.s \o hi.s, c |-> hi.c]

\* limbs i..j of x + y + c for a carry in c of 0 or 1, and the carry out,
\* by halves of the range
RECURSIVE BigAddRange(_, _, _, _, _)
RECURSIVE BigAddHigh(_, _, _, _, _)
BigAddHigh(x, y, lo, i, j) == BigAddJoin(lo, BigAddRange(x, y, lo.c, i, j))

BigAddRange(x, y, c, i, j) ==
    IF i = j
    THEN [s |-> <<(LimbAt(x, i) + LimbAt(y, i) + c) % Base>>,
          c |-> (LimbAt(x, i) + LimbAt(y, i) + c) \div Base]
    ELSE BigAddHigh(x, y, BigAddRange(x, y, c, i, (i + j) \div 2),
                    ((i + j) \div 2) + 1, j)

\* the number of the limbs r.s with the carry out r.c above them
BigAddOut(r) == BigNorm(Append(r.s, r.c))

\* x + y + c for limbs x and y and c of 0 or 1
BigAddC(x, y, c) ==
    IF x = <<>> /\ y = <<>> THEN (IF c = 0 THEN <<>> ELSE <<c>>)
    ELSE BigAddOut(BigAddRange(x, y, c, 1, Max2(Len(x), Len(y))))

BigAdd(x, y) == BigAddC(x, y, 0)

\* x - y for x >= y: x plus the complement of y plus 1, without the carry out
BigSub(x, y) ==
    IF x = <<>> THEN <<>>
    ELSE BigNorm(BigAddRange(x, [i \in 1..Len(x) |-> Base - 1 - LimbAt(y, i)],
                             1, 1, Len(x)).s)

\* -1, 0, 1 as x is below, equal to, above y
BigCmp(x, y) ==
    IF Len(x) < Len(y) THEN -1
    ELSE IF Len(x) > Len(y) THEN 1
    ELSE IF x = y THEN 0
    ELSE IF \E i \in DOMAIN x :
                x[i] < y[i] /\ \A j \in (i + 1)..Len(x) : x[j] = y[j]
    THEN -1
    ELSE 1

\* x * k for k below Base: the low halves of the limb products plus their
\* high halves one limb up
BigMulSmall(x, k) ==
    IF k = 0 \/ x = <<>> THEN <<>>
    ELSE BigAdd([i \in 1..Len(x) |-> (x[i] * k) % Base],
                <<0>> \o [i \in 1..Len(x) |-> (x[i] * k) \div Base])

\* x * Base^n
BigShlLimbs(x, n) == IF x = <<>> THEN <<>> ELSE [i \in 1..n |-> 0] \o x

\* x * y for a normalised x and limbs y, by halves of y
RECURSIVE BigMul(_, _)
BigMul(x, y) ==
    IF y = <<>> \/ x = <<>> THEN <<>>
    ELSE IF Len(y) = 1 THEN BigMulSmall(x, y[1])
    ELSE BigAdd(BigMul(x, SubSeq(y, 1, Len(y) \div 2)),
                BigShlLimbs(BigMul(x, SubSeq(y, (Len(y) \div 2) + 1, Len(y))),
                            Len(y) \div 2))

RECURSIVE IntBitLen(_)
IntBitLen(n) == IF n = 0 THEN 0 ELSE 1 + IntBitLen(n \div 2)

BigBitLen(x) ==
    IF x = <<>> THEN 0 ELSE 15 * (Len(x) - 1) + IntBitLen(x[Len(x)])

\* x * 2^k
BigShl(x, k) == BigShlLimbs(BigMulSmall(x, Pow2(k % 15)), k \div 15)

\* floor(x / 2^k): each limb takes its high bits and the low bits of the
\* limb above
BigShr(x, k) ==
    IF k \div 15 >= Len(x) THEN <<>>
    ELSE BigNorm([i \in 1..(Len(x) - (k \div 15)) |->
                     (x[i + (k \div 15)] \div Pow2(k % 15))
                        + (LimbAt(x, i + (k \div 15) + 1) % Pow2(k % 15))
                             * Pow2(15 - (k % 15))])

BigIsOdd(x) == x # <<>> /\ x[1] % 2 = 1

\* one step of the long division by d: q2 is twice the quotient so far and
\* r2 twice the remainder so far plus the bit brought down; the quotient
\* takes a 1 and the remainder gives d away when d goes into it
BigDivStep(d, i, q2, r2) ==
    [i |-> i,
     q |-> IF BigCmp(r2, d) >= 0 THEN BigAddC(q2, <<>>, 1) ELSE q2,
     r |-> IF BigCmp(r2, d) >= 0 THEN BigSub(r2, d) ELSE r2]

\* schoolbook long division of n by d, one bit of n at a time: st holds the
\* number i of bits of n still to bring down, and the quotient q and the
\* remainder r of the bits above them; bits i down to stop + 1 are brought down
RECURSIVE BigDivBits(_, _, _, _)
BigDivBits(n, d, stop, st) ==
    IF st.i <= stop THEN st
    ELSE BigDivBits(n, d, stop,
             BigDivStep(d, st.i - 1, BigShl(st.q, 1),
                        BigAddC(BigShl(st.r, 1), <<>>,
                                IF BigIsOdd(BigShr(n, st.i - 1)) THEN 1 ELSE 0)))

\* the bits of n still to bring down are brought down in runs of 8
RECURSIVE BigDivRuns(_, _, _)
BigDivRuns(n, d, st) ==
    IF st.i = 0 THEN st
    ELSE BigDivRuns(n, d, BigDivBits(n, d, Max2(0, st.i - 8), st))

\* the long division of n by d, for d > 0: q is floor(n / d) and r the
\* remainder.  The leading bits of n that are fewer than the bits of d give
\* no quotient bit and start the remainder.
BigDiv(n, d) ==
    BigDivRuns(n, d,
               [i |-> Max2(0, BigBitLen(n) - (BigBitLen(d) - 1)),
                q |-> <<>>,
                r |-> BigShr(n, Max2(0, BigBitLen(n) - (BigBitLen(d) - 1)))])

(***************************************************************************)
(* f64.  A value is [k, s, m, e]: kind "fin", "inf" or "nan", sign bit s,  *)
(* and for a finite value the magnitude m * 2^e with m odd (or zero, with  *)
(* e = 0): every f64 value has exactly one such record.  A finite f64 has  *)
(* at most 53 mantissa bits, e >= -1074 and a magnitude below 2^1024.      *)
(***************************************************************************)
F64Zero(s) == [k |-> "fin", s |-> s, m |-> <<>>, e |-> 0]
F64Inf(s) == [k |-> "inf", s |-> s, m |-> <<>>, e |-> 0]
F64NaN == [k |-> "nan", s |-> 0, m |-> <<>>, e |-> 0]

RECURSIVE IntTrailingZeros(_)
IntTrailingZeros(n) == IF n % 2 = 1 THEN 0 ELSE 1 + IntTrailingZeros(n \div 2)

\* the record of (-1)^s * m * 2^e, an exactly representable value
RECURSIVE F64Canon(_, _, _)
F64Canon(s, m, e) ==
    IF m = <<>> THEN F64Zero(s)
    ELSE IF m[1] = 0 THEN F64Canon(s, Tail(m), e + 15)
    ELSE LET tz == IntTrailingZeros(m[1])
         IN  [k |-> "fin", s |-> s, m |-> BigShr(m, tz), e |-> e + tz]

\* the f64 nearest to (-1)^s * (m + f) * 2^e, ties to even, where 0 < f < 1
\* when sticky and f = 0 otherwise; m has at least 55 bits when sticky
F64Round(s, m, e, sticky) ==
    LET len == BigBitLen(m)
        drop == Max2(Max2(len - 53, (0 - 1074) - e), 0)
        kept == BigShr(m, drop)
        rest == BigSub(m, BigShl(kept, drop))
        half == BigCmp(rest, BigShl(<<1>>, drop - 1))
        up == \/ half > 0
              \/ half = 0 /\ (sticky \/ BigIsOdd(kept))
        r == IF drop = 0 THEN m
             ELSE IF up THEN BigAddC(kept, <<>>, 1) ELSE kept
    IN  IF drop > len THEN F64Zero(s)
        ELSE IF BigBitLen(r) + e + drop > 1024 THEN F64Inf(s)
        ELSE F64Canon(s, r, e + drop)

F64OfInt(n) ==
    IF n < 0 THEN F64Canon(1, BigOfInt(0 - n), 0) ELSE F64Canon(0, BigOfInt(n), 0)

\* 2^k for -1074 <= k <= 1023
F64Pow2(k) == [k |-> "fin", s |-> 0, m |-> <<1>>, e |-> k]

F64IsZero(x) == x.k = "fin" /\ x.m = <<>>

SignXor(a, b) == IF a.s = b.s THEN 0 ELSE 1

\* a * b
F64Mul(a, b) ==
    IF a.k = "nan" \/ b.k = "nan" THEN F64NaN
    ELSE IF a.k = "inf" \/ b.k = "inf"
         THEN (IF F64IsZero(a) \/ F64IsZero(b) THEN F64NaN
               ELSE F64Inf(SignXor(a, b)))
    ELSE IF F64IsZero(a) \/ F64IsZero(b) THEN F64Zero(SignXor(a, b))
    ELSE F64Round(SignXor(a, b), BigMul(a.m, b.m), a.e + b.e, FALSE)

\* the f64 nearest to (-1)^s * (n / d) * 2^e, for n > 0 and d > 0: the
\* quotient is taken on n * 2^shift, so that it has at least 55 bits
F64OfRatio(s, n, d, e) ==
    LET shift == Max2(0, 55 + BigBitLen(d) - BigBitLen(n))
        qs == BigDiv(BigShl(n, shift), d)
    IN  F64Round(s, qs.q, e - shift, qs.r # <<>>)

\* a / b
F64Div(a, b) ==
    IF a.k = "nan" \/ b.k = "nan" THEN F64NaN
    ELSE IF a.k = "inf"
         THEN (IF b.k = "inf" THEN F64NaN ELSE F64Inf(SignXor(a, b)))
    ELSE IF b.k = "inf" THEN F64Zero(SignXor(a, b))
    ELSE IF F64IsZero(b)
         THEN (IF F64IsZero(a) THEN F64NaN ELSE F64Inf(SignXor(a, b)))
    ELSE IF F64IsZero(a) THEN F64Zero(SignXor(a, b))
    ELSE F64OfRatio(SignXor(a, b), a.m, b.m, a.e - b.e)

\* -1, 0, 1 as |a| is below, equal to, above |b|, for a and b not NaN
F64MagCmp(a, b) ==
    IF a.k = "inf" \/ b.k = "inf"
    THEN (IF a.k = b.k THEN 0 ELSE IF a.k = "inf" THEN 1 ELSE -1)
    ELSE IF F64IsZero(a) \/ F64IsZero(b)
    THEN (IF F64IsZero(a) /\ F64IsZero(b) THEN 0
          ELSE IF F64IsZero(a) THEN -1 ELSE 1)
    ELSE LET pa == a.e + BigBitLen(a.m)
             pb == b.e + BigBitLen(b.m)
         IN  IF pa < pb THEN -1
             ELSE IF pa > pb THEN 1
             ELSE IF a.e >= b.e THEN BigCmp(BigShl(a.m, a.e - b.e), b.m)
             ELSE BigCmp(a.m, BigShl(b.m, b.e - a.e))

\* a < b (false when either is NaN; -0.0 and 0.0 are equal)
F64Lt(a, b) ==
    /\ a.k # "nan"
    /\ b.k # "nan"
    /\ ~(F64IsZero(a) /\ F64IsZero(b))
    /\ IF a.s = 1 /\ b.s = 0 THEN TRUE
       ELSE IF a.s = 0 /\ b.s = 1 THEN FALSE
       ELSE IF a.s = 0 THEN F64MagCmp(a, b) < 0
       ELSE F64MagCmp(a, b) > 0

\* f64::round: to the nearest integer, halves away from zero
F64RoundHalfAway(x) ==
    IF x.k # "fin" \/ x.e >= 0 THEN x
    ELSE LET whole == BigShr(x.m, 0 - x.e)
             halfbit == IF BigIsOdd(BigShr(x.m, (0 - x.e) - 1)) THEN 1 ELSE 0
         IN  F64Canon(x.s, BigAddC(whole, <<>>, halfbit), 0)

BigMaxUnsigned(bits) == BigSub(BigShl(<<1>>, bits), <<1>>)

\* `x as u32`, `x as u64`, `x as usize`: truncation toward zero, saturating
\* at the ends of the type, NaN to 0
F64AsUnsigned(x, bits) ==
    IF x.k = "nan" \/ x.s = 1 THEN <<>>
    ELSE IF x.k = "inf" THEN BigMaxUnsigned(bits)
    ELSE IF x.m = <<>> THEN <<>>
    ELSE IF x.e + BigBitLen(x.m) > bits THEN BigMaxUnsigned(bits)
    ELSE IF x.e >= 0 THEN BigShl(x.m, x.e)
    ELSE BigShr(x.m, 0 - x.e)

(***************************************************************************)
(* Results and errors.  A result is Ok with a market cap, Err with one of  *)
(* lib.rs's Error variants (or a reqwest error raised while the body is    *)
(* read), Panic when the call aborts the process, or None before a call.   *)
(***************************************************************************)
NoString == <<>>

Ok(cap) ==
    [tag |-> "Ok", cap |-> cap, kind |-> "", text |-> "", asset |-> NoString]

Err(kind, text, asset) ==
    [tag |-> "Err", cap |-> F64NaN, kind |-> kind, text |-> text, asset |-> asset]

Panic(text) ==
    [tag |-> "Panic", cap |-> F64NaN, kind |-> "panic", text |-> text,
     asset |-> NoString]

\* an error of clap: its ErrorKind, the argument it is about and the value
\* or the argument given on the command line
ClapError(kind, arg, value) ==
    [tag |-> "ClapError", cap |-> F64NaN, kind |-> kind, text |-> arg,
     asset |-> value]

NoResult ==
    [tag |-> "None", cap |-> F64NaN, kind |-> "", text |-> "", asset |-> NoString]

(***************************************************************************)
(* Response bodies are texts.  ParseJson gives, for each text of the model, *)
(* what serde_json reads in it: whether it is JSON at all, whether the top  *)
(* is an array or an object, the top-level keys that hold a value of the   *)
(* type lib.rs's structs expect, whether "results" is an object or an      *)
(* array, the "message" string, and the records (of the top-level array,   *)
(* of the "results" array, or the one "results" object), each with the     *)
(* keys it holds with the expected type and its load-bearing number.       *)
(***************************************************************************)
CoingeckoOptional == {"max_supply", "roi"}
CoingeckoRequired ==
    {"id", "symbol", "name", "image", "current_price", "market_cap",
     "market_cap_rank", "fully_diluted_valuation", "total_volume", "high_24h",
     "low_24h", "price_change_24h", "price_change_percentage_24h",
     "market_cap_change_24h", "market_cap_change_percentage_24h",
     "circulating_supply", "total_supply", "ath", "ath_change_percentage",
     "ath_date", "atl", "atl_change_percentage", "atl_date", "last_updated"}

CompanyDetailsOptional == {"branding", "description", "homepage_url", "list_date"}
CompanyDetailsRequired ==
    {"active", "address", "cik", "composite_figi", "currency_name", "locale",
     "market", "market_cap", "name", "phone_number", "primary_exchange",
     "round_lot", "share_class_figi", "share_class_shares_outstanding",
     "sic_code", "sic_description", "ticker", "ticker_root", "total_employees",
     "type", "weighted_shares_outstanding"}

TickerDetailsV3Required == {"status", "request_id", "results"}

AggsTickerV2Required ==
    {"ticker", "queryCount", "resultsCount", "adjusted", "results", "status",
     "request_id", "count"}

OHCLRequired == {"T", "v", "vw", "o", "c", "h", "l", "t", "n"}

PolygonIoErrorResponseRequired == {"status", "request_id", "message"}

F64_2559_15 == [k |-> "fin", s |-> 0, m |-> <<19661, 6553, 31027, 159>>, e |-> 0 - 41]

Item(keys, val) == [keys |-> keys, val |-> val]

NotJson ==
    [valid |-> FALSE, top |-> "none", keys |-> {}, rkind |-> "none",
     message |-> "", items |-> <<>>]

JsonArray(items) ==
    [valid |-> TRUE, top |-> "array", keys |-> {}, rkind |-> "none",
     message |-> "", items |-> items]

JsonObject(keys, rkind, message, items) ==
    [valid |-> TRUE, top |-> "object", keys |-> keys, rkind |-> rkind,
     message |-> message, items |-> items]

CoinAll(val) == Item(CoingeckoRequired \cup CoingeckoOptional, val)
CompanyAll(val) == Item(CompanyDetailsRequired \cup CompanyDetailsOptional, val)
CandleAll(val) == Item(OHCLRequired, val)

ParseJson(text) ==
    CASE text = "[]" -> JsonArray(<<>>)
      [] text = "[ ]" -> JsonArray(<<>>)
      [] text = "[{<all fields>, market_cap: 1}]" ->
            JsonArray(<<CoinAll(F64OfInt(1))>>)
      [] text = "[{<all fields>, market_cap: 3}]" ->
            JsonArray(<<CoinAll(F64OfInt(3))>>)
      [] text = "[{<all fields>, market_cap: 3}, {<all fields>, market_cap: 1}]" ->
            JsonArray(<<CoinAll(F64OfInt(3)), CoinAll(F64OfInt(1))>>)
      [] text = "[{<all fields>, market_cap: 1, extra: 0}]" ->
            JsonArray(<<Item(CoingeckoRequired \cup CoingeckoOptional \cup {"extra"},
                             F64OfInt(1))>>)
      [] text = "[{<all fields but max_supply, roi>, market_cap: 1}]" ->
            JsonArray(<<Item(CoingeckoRequired, F64OfInt(1))>>)
      [] text = "[{<all fields>, market_cap: 1, fully_diluted_valuation: null}]" ->
            JsonArray(<<Item((CoingeckoRequired \cup CoingeckoOptional)
                                \ {"fully_diluted_valuation"}, F64OfInt(1))>>)
      [] text = "[{market_cap: 1}]" ->
            JsonArray(<<Item({"market_cap"}, F64OfInt(1))>>)
      [] text = "[{<all fields but market_cap>}]" ->
            JsonArray(<<Item((CoingeckoRequired \cup CoingeckoOptional)
                                \ {"market_cap"}, F64NaN)>>)
      [] text = "{status: {error_code: 429, error_message: throttled}}" ->
            JsonObject({}, "none", "", <<>>)
      [] text = "{status: OK, request_id: r, results: {<all fields>, market_cap: 1}}" ->
            JsonObject(TickerDetailsV3Required, "object", "",
                       <<CompanyAll(F64OfInt(1))>>)
      [] text = "{status: OK, request_id: r, results: {<all fields>, market_cap: 3}}" ->
            JsonObject(TickerDetailsV3Required, "object", "",
                       <<CompanyAll(F64OfInt(3))>>)
      [] text = "{status: OK, request_id: r, results: {<all fields>, market_cap: 1, extra: 0}}" ->
            JsonObject(TickerDetailsV3Required, "object", "",
                       <<Item(CompanyDetailsRequired \cup CompanyDetailsOptional
                                 \cup {"extra"}, F64OfInt(1))>>)
      [] text = "{status: OK, request_id: r, results: {<all fields but branding, description, homepage_url, list_date>, market_cap: 1}}" ->
            JsonObject(TickerDetailsV3Required, "object", "",
                       <<Item(CompanyDetailsRequired, F64OfInt(1))>>)
      [] text = "{status: OK, request_id: r, results: {<all fields but total_employees>, market_cap: 1}}" ->
            JsonObject(TickerDetailsV3Required, "object", "",
                       <<Item((CompanyDetailsRequired \cup CompanyDetailsOptional)
                                 \ {"total_employees"}, F64OfInt(1))>>)
      [] text = "{status: OK, request_id: r, results: {market_cap: 1}}" ->
            JsonObject(TickerDetailsV3Required, "object", "",
                       <<Item({"market_cap"}, F64OfInt(1))>>)
      [] text = "{results: {<all fields>, market_cap: 1}}" ->
            JsonObject({"results"}, "object", "", <<CompanyAll(F64OfInt(1))>>)
      [] text = "{status: OK, request_id: r, results: {<all fields but market_cap>}}" ->
            JsonObject(TickerDetailsV3Required, "object", "",
                       <<Item((CompanyDetailsRequired \cup CompanyDetailsOptional)
                                 \ {"market_cap"}, F64NaN)>>)
      [] text = "{<all fields>, results: [{<all fields>, c: 2559.15}]}" ->
            JsonObject(AggsTickerV2Required, "array", "", <<CandleAll(F64_2559_15)>>)
      [] text = "{<all fields>, results: [{<all fields>, c: 2}]}" ->
            JsonObject(AggsTickerV2Required, "array", "", <<CandleAll(F64OfInt(2))>>)
      [] text = "{<all fields>, results: [{<all fields>, c: 2}], extra: 0}" ->
            JsonObject(AggsTickerV2Required \cup {"extra"}, "array", "",
                       <<CandleAll(F64OfInt(2))>>)
      [] text = "{<all fields>, results: []}" ->
            JsonObject(AggsTickerV2Required, "array", "", <<>>)
      [] text = "{<all fields but results>}" ->
            JsonObject(AggsTickerV2Required \ {"results"}, "none", "", <<>>)
      [] text = "{results: [{c: 2}]}" ->
            JsonObject({"results"}, "array", "", <<Item({"c"}, F64OfInt(2))>>)
      [] text = "{<all fields>, results: [{<all fields but n>, c: 2}]}" ->
            JsonObject(AggsTickerV2Required, "array", "",
                       <<Item(OHCLRequired \ {"n"}, F64OfInt(2))>>)
      [] text = "{<all fields>, results: [{<all fields but c>}]}" ->
            JsonObject(AggsTickerV2Required, "array", "",
                       <<Item(OHCLRequired \ {"c"}, F64NaN)>>)
      [] text = "{status: NOT_FOUND, request_id: r, message: Ticker not found.}" ->
            JsonObject(PolygonIoErrorResponseRequired, "none",
                       "Ticker not found.", <<>>)
      [] text = "{status: ERROR, request_id: r, error: Unknown API Key}" ->
            JsonObject({"status", "request_id"}, "none", "", <<>>)
      [] OTHER -> NotJson

AllItems(doc, required) ==
    \A i \in DOMAIN doc.items : required \subseteq doc.items[i].keys

\* serde_json::from_str::<Vec<CoingeckoMarketsV2>>
DecodesAsCoingeckoMarkets(text) ==
    LET doc == ParseJson(text)
    IN  doc.valid /\ doc.top = "array" /\ AllItems(doc, CoingeckoRequired)

\* serde_json::from_str::<TickerDetailsV3>
DecodesAsTickerDetailsV3(text) ==
    LET doc == ParseJson(text)
    IN  /\ doc.valid
        /\ doc.top = "object"
        /\ TickerDetailsV3Required \subseteq doc.keys
        /\ doc.rkind = "object"
        /\ AllItems(doc, CompanyDetailsRequired)

\* serde_json::from_str::<AggsTickerV2>
DecodesAsAggsTickerV2(text) ==
    LET doc == ParseJson(text)
    IN  /\ doc.valid
        /\ doc.top = "object"
        /\ AggsTickerV2Required \subseteq doc.keys
        /\ doc.rkind = "array"
        /\ AllItems(doc, OHCLRequired)

\* serde_json::from_str::<PolygonIoErrorResponse>
DecodesAsPolygonIoErrorResponse(text) ==
    LET doc == ParseJson(text)
    IN  /\ doc.valid
        /\ doc.top = "object"
        /\ PolygonIoErrorResponseRequired \subseteq doc.keys

(***************************************************************************)
(* Configuration.  An environment variable is unset, set to bytes that are *)
(* not Unicode, or set to a string (which may be empty).                    *)
(***************************************************************************)
Unset == [st |-> "unset", v |-> <<>>]
NotUnicode == [st |-> "not_unicode", v |-> <<>>]
SetTo(v) == [st |-> "set", v |-> v]

\* std::env::var: Ok(value) only for a variable set to a Unicode string
env_var_is_ok(x) == x.st = "set"

\* ApiKeys::default()
ApiKeysDefault == [coingecko |-> <<>>, polygonio |-> <<>>]

\* a loader that also turns an empty value away
get_required_envs_rejecting_empty(environ) ==
    IF ~(env_var_is_ok(environ.POLYGON_KEY) /\ environ.POLYGON_KEY.v # <<>>)
    THEN [ok |-> FALSE, keys |-> ApiKeysDefault,
          err |-> Err("EnvVarError", "POLYGON_KEY", NoString)]
    ELSE IF ~(env_var_is_ok(environ.COINGECKO_KEY) /\ environ.COINGECKO_KEY.v # <<>>)
    THEN [ok |-> FALSE, keys |-> ApiKeysDefault,
          err |-> Err("EnvVarError", "COINGECKO_KEY", NoString)]
    ELSE [ok |-> TRUE,
          keys |-> [coingecko |-> environ.COINGECKO_KEY.v,
                    polygonio |-> environ.POLYGON_KEY.v],
          err |-> NoResult]

\* lib.rs get_required_envs
get_required_envs(environ) ==
    IF ~env_var_is_ok(environ.POLYGON_KEY)
    THEN [ok |-> FALSE, keys |-> ApiKeysDefault,
          err |-> Err("EnvVarError", "POLYGON_KEY", NoString)]
    ELSE IF ~env_var_is_ok(environ.COINGECKO_KEY)
    THEN [ok |-> FALSE, keys |-> ApiKeysDefault,
          err |-> Err("EnvVarError", "COINGECKO_KEY", NoString)]
    ELSE [ok |-> TRUE,
          keys |-> [coingecko |-> environ.COINGECKO_KEY.v,
                    polygonio |-> environ.POLYGON_KEY.v],
          err |-> NoResult]

(***************************************************************************)
(* URLs.  A Url is its scheme, host, path, query and fragment as the url   *)
(* crate serializes them.  Url::from_str parses the formatted text, so the *)
(* identifier put in the text is read as the parser reads it: "?" and "#"  *)
(* end the path, "." and ".." segments are resolved, tabs and line breaks  *)
(* are dropped, the ends are trimmed and the other characters are          *)
(* percent-encoded.  The texts of this program start with "https://" and a *)
(* host name followed by "/": they have no credentials and no port, the    *)
(* host is ASCII in lower case, and the parse cannot fail, so every        *)
(* builder returns its Url.                                                *)
(***************************************************************************)

\* the ASCII characters in the order of their codes: Ascii[n + 1] has code
\* n; a control character other than tab, line feed and carriage return is
\* named by its code point, and the grave accent (code 96) is "grave"
Ascii ==
    <<"U+0000", "U+0001", "U+0002", "U+0003", "U+0004", "U+0005", "U+0006",
      "U+0007", "U+0008", "\t", "\n", "U+000B", "U+000C", "\r", "U+000E",
      "U+000F", "U+0010", "U+0011", "U+0012", "U+0013", "U+0014", "U+0015",
      "U+0016", "U+0017", "U+0018", "U+0019", "U+001A", "U+001B", "U+001C",
      "U+001D", "U+001E", "U+001F", " ", "!", "\"", "#", "$", "%", "&", "'",
      "(", ")", "*", "+", ",", "-", ".", "/", "0", "1", "2", "3", "4", "5",
      "6", "7", "8", "9", ":", ";", "<", "=", ">", "?", "@", "A", "B", "C",
      "D", "E", "F", "G", "H", "I", "J", "K", "L", "M", "N", "O", "P", "Q",
      "R", "S", "T", "U", "V", "W", "X", "Y", "Z", "[", "\\", "]", "^", "_",
      "grave", "a", "b", "c", "d", "e", "f", "g", "h", "i", "j", "k", "l", "m",
      "n", "o", "p", "q", "r", "s", "t", "u", "v", "w", "x", "y", "z", "{",
      "|", "}", "~", "U+007F">>

\* the ASCII characters, the ones from the space to the tilde (codes 32 to
\* 126), and the C0 control characters with the space (codes 0 to 32)
AsciiChars == Range(Ascii)
AsciiGraphic == Range(SubSeq(Ascii, 33, 127))
C0ControlOrSpace == Range(SubSeq(Ascii, 1, 33))

\* the code point of a character
char_code(c) ==
    IF c \in AsciiChars THEN IndexIn(Ascii, c) - 1
    ELSE CASE c = "eszett" -> 223
           [] c = "I_dot" -> 304
           [] c = "dotless_i" -> 305
           [] c = "DZ_upper" -> 452
           [] c = "Dz_title" -> 453
           [] c = "dz_lower" -> 454
           [] c = "combining_dot" -> 775
           [] c = "zhong" -> 20013

\* char::encode_utf8: the bytes of a code point
encode_utf8(code) ==
    IF code < 128 THEN <<code>>
    ELSE IF code < 2048
    THEN <<192 + (code \div 64), 128 + (code % 64)>>
    ELSE IF code < 65536
    THEN <<224 + (code \div 4096), 128 + ((code \div 64) % 64),
           128 + (code % 64)>>
    ELSE <<240 + (code \div 262144), 128 + ((code \div 4096) % 64),
           128 + ((code \div 64) % 64), 128 + (code % 64)>>

\* the concatenation of the sequences of ss, by halves
RECURSIVE Concat(_)
Concat(ss) ==
    IF Len(ss) = 0 THEN <<>>
    ELSE IF Len(ss) = 1 THEN ss[1]
    ELSE Concat(SubSeq(ss, 1, Len(ss) \div 2))
            \o Concat(SubSeq(ss, Len(ss) \div 2 + 1, Len(ss)))

UpperHex == Digits \o <<"A", "B", "C", "D", "E", "F">>

\* percent_encoding::percent_encode_byte on each byte
percent_encode_bytes(bytes) ==
    Concat([i \in DOMAIN bytes |->
              <<"%", UpperHex[(bytes[i] \div 16) + 1],
                UpperHex[(bytes[i] % 16) + 1]>>])

\* the AsciiSets of the url crate: the characters of each set that are not
\* control characters (CONTROLS, the codes below 32 and 127, are in every set)
FRAGMENT == {" ", "\"", "<", ">", "grave"}
PATH == FRAGMENT \cup {"#", "?", "{", "}"}
SPECIAL_QUERY == {" ", "\"", "#", "<", ">", "'"}

\* percent_encoding::utf8_percent_encode: a character that is not ASCII, a
\* control character and a character of the set become the %XX of their
\* UTF-8 bytes
utf8_percent_encode(input, ascii_set) ==
    Concat([i \in DOMAIN input |->
              IF input[i] \in AsciiGraphic /\ input[i] \notin ascii_set
              THEN <<input[i]>>
              ELSE percent_encode_bytes(encode_utf8(char_code(input[i])))])

\* the bytes form_urlencoded::byte_serialize leaves as they are
Unchanged ==
    Range(Digits) \cup Range(UpperAscii) \cup Range(LowerAscii)
        \cup {"*", "-", ".", "_"}

\* form_urlencoded::byte_serialize: letters, digits and * - . _ stay, a
\* space becomes +, every other byte becomes %XX
byte_serialize(input) ==
    Concat([i \in DOMAIN input |->
              IF input[i] \in Unchanged
              THEN <<input[i]>>
              ELSE IF input[i] = " " THEN <<"+">>
              ELSE percent_encode_bytes(encode_utf8(char_code(input[i])))])

\* Option<&str>
None == [some |-> FALSE, v |-> <<>>]
Some(v) == [some |-> TRUE, v |-> v]

\* url::parser::Input::new: the C0 control characters and spaces at both
\* ends are trimmed, and no tab, line feed or carriage return is read
Input_new(original_input) ==
    LET kept == {i \in DOMAIN original_input :
                    original_input[i] \notin C0ControlOrSpace}
    IN  IF kept = {} THEN <<>>
        ELSE SelectSeq(SubSeq(original_input,
                              CHOOSE i \in kept : \A j \in kept : i <= j,
                              CHOOSE i \in kept : \A j \in kept : j <= i),
                       LAMBDA c : c \notin {"\t", "\n", "\r"})

\* the pieces of s between the characters of seps
SplitOn(s, seps) ==
    LET cuts == {i \in DOMAIN s : s[i] \in seps}
        cut(k) == IF k = 0 THEN 0
                  ELSE IF k > Cardinality(cuts) THEN Len(s) + 1
                  ELSE CHOOSE i \in cuts :
                           Cardinality({j \in cuts : j < i}) = k - 1
    IN  [k \in 1..(Cardinality(cuts) + 1) |->
            SubSeq(s, cut(k - 1) + 1, cut(k) - 1)]

SingleDot == {<<".">>, <<"%", "2", "e">>, <<"%", "2", "E">>}
DoubleDot == {a \o b : a \in SingleDot, b \in SingleDot}

\* url::parser::Parser::parse_path for a special scheme, on the segments
\* already percent-encoded: path is the list of segments so far; a
\* double-dot segment removes the last segment, a dot segment adds nothing,
\* and either adds the empty segment when it is the last one
RECURSIVE parse_path(_, _)
parse_path(path, segments) ==
    IF segments = <<>> THEN path
    ELSE parse_path(
             IF Head(segments) \in DoubleDot
             THEN SubSeq(path, 1, Len(path) - 1)
                     \o (IF Len(segments) = 1 THEN <<<<>>>> ELSE <<>>)
             ELSE IF Head(segments) \in SingleDot
             THEN path \o (IF Len(segments) = 1 THEN <<<<>>>> ELSE <<>>)
             ELSE Append(path, Head(segments)),
             Tail(segments))

\* Url::path: every segment after a "/"
path_of(segments) ==
    Concat([i \in DOMAIN segments |-> <<"/">> \o segments[i]])

\* the path, query and fragment of the text that follows the host: the path
\* ends at the first "?" or "#" (stop), the query at the first "#" (hash);
\* in a special scheme "\" separates segments as "/" does
parse_path_start(scheme, host, input, stop, hash) ==
    [scheme |-> scheme,
     host |-> host,
     path |->
        path_of(parse_path(<<>>,
            SplitOn(utf8_percent_encode(
                        SubSeq(input,
                               IF input # <<>> /\ input[1] \in {"/", "\\"}
                               THEN 2 ELSE 1,
                               stop - 1),
                        PATH),
                    {"/", "\\"}))),
     query |->
        IF stop <= Len(input) /\ input[stop] = "?"
        THEN Some(utf8_percent_encode(SubSeq(input, stop + 1, hash - 1),
                                      SPECIAL_QUERY))
        ELSE None,
     fragment |->
        IF hash <= Len(input)
        THEN Some(utf8_percent_encode(SubSeq(input, hash + 1, Len(input)),
                                      FRAGMENT))
        ELSE None]

\* the position of the first character of s that is in set, Len(s) + 1
\* without one
EndAt(s, set) ==
    IF FirstIndex(s, set) = 0 THEN Len(s) + 1 ELSE FirstIndex(s, set)

\* the text after "scheme://host" is handed to parse_path_start
parse_after_host(scheme, host, input) ==
    parse_path_start(scheme, host, input,
                     EndAt(input, {"?", "#"}), EndAt(input, {"#"}))

\* the host ends at the first of / \ ? #
parse_host(scheme, input) ==
    parse_after_host(scheme,
                     SubSeq(input, 1, EndAt(input, {"/", "\\", "?", "#"}) - 1),
                     SubSeq(input, EndAt(input, {"/", "\\", "?", "#"}),
                            Len(input)))

\* the scheme ends at the first ":", which "//" follows
parse_scheme(input) ==
    parse_host(SubSeq(input, 1, FirstIndex(input, {":"}) - 1),
               SubSeq(input, FirstIndex(input, {":"}) + 3, Len(input)))

\* <Url as FromStr>::from_str, Url::parse
Url_from_str(input) == parse_scheme(Input_new(input))

\* url.query_pairs_mut().append_pair(name, value): the pair is appended to
\* the query, after "&" when the query is not empty; the fragment is kept
append_pair(url, name, value) ==
    [url EXCEPT !.query =
        Some((IF url.query.some /\ url.query.v # <<>>
              THEN url.query.v \o <<"&">> ELSE <<>>)
                \o byte_serialize(name) \o <<"=">> \o byte_serialize(value))]

POLYGONIO_BASE_URL ==
    <<"h", "t", "t", "p", "s", ":", "/", "/", "a", "p", "i", ".", "p", "o",
      "l", "y", "g", "o", "n", ".", "i", "o">>

COINGECKO_BASE_URL ==
    <<"h", "t", "t", "p", "s", ":", "/", "/", "a", "p", "i", ".", "c", "o",
      "i", "n", "g", "e", "c", "k", "o", ".", "c", "o", "m">>

str_apiKey == <<"a", "p", "i", "K", "e", "y">>

construct_coingecko_v3_markets_query_url(coingecko_id, apikey) ==
    append_pair(
        append_pair(
            append_pair(
                Url_from_str(COINGECKO_BASE_URL \o
                    <<"/", "a", "p", "i", "/", "v", "3", "/", "c", "o", "i",
                      "n", "s", "/", "m", "a", "r", "k", "e", "t", "s">>),
                <<"v", "s", "_", "c", "u", "r", "r", "e", "n", "c", "y">>,
                <<"u", "s", "d">>),
            <<"i", "d", "s">>, coingecko_id),
            <<"x", "_", "c", "g", "_", "k", "e", "y">>, apikey)

construct_tickerdetailsv3_query_url(stock_symbol, apikey) ==
    append_pair(
        Url_from_str(POLYGONIO_BASE_URL \o
                    <<"/", "v", "3", "/", "r", "e", "f", "e", "r", "e", "n",
                      "c", "e", "/", "t", "i", "c", "k", "e", "r", "s",
                      "/">>
                        \o stock_symbol),
        str_apiKey, apikey)

construct_forex_query_url(forex_ticker, apikey) ==
    append_pair(
        Url_from_str(POLYGONIO_BASE_URL \o
                    <<"/", "v", "2", "/", "a", "g", "g", "s", "/", "t", "i",
                      "c", "k", "e", "r", "/", "C", ":">>
                        \o forex_ticker \o <<"/", "p", "r", "e", "v">>),
        str_apiKey, apikey)

(***************************************************************************)
(* The provider adapters.  What the network does with the one request of a *)
(* call is the outcome o: whether send() returned a response, the status,  *)
(* whether text() could read the body, and the body.  Each adapter gives   *)
(* the requests it issued and its result.                                   *)
(***************************************************************************)
Outcome(sent, status, read, body) ==
    [sent |-> sent, status |-> status, read |-> read, body |-> body]

\* StatusCode::is_success
is_success(status) == 200 <= status /\ status <= 299

TONNE_TO_OUNCE ==
    [k |-> "fin", s |-> 0, m |-> <<10181, 22793, 20047, 8>>, e |-> 0 - 33]

str_XAUUSD == <<"X", "A", "U", "U", "S", "D">>

SendRequestErr == Err("SendRequest", "reqwest::Error", NoString)
BodyReadErr == Err("reqwest::Error", "reqwest::Error", NoString)
DeserializationErr(asset) == Err("Deserialization", "serde_json::Error", asset)
IndexPanic == Panic("index out of bounds: the len is 0 but the index is 0")

\* lib.rs return_stock_market_cap
return_stock_market_cap(stock_symbol, keys, o) ==
    [requests |-> <<construct_tickerdetailsv3_query_url(stock_symbol,
                                                        keys.polygonio)>>,
     result |->
        IF ~o.sent THEN SendRequestErr
        ELSE IF ~o.read THEN BodyReadErr
        ELSE IF is_success(o.status)
        THEN (IF ~DecodesAsTickerDetailsV3(o.body)
              THEN DeserializationErr(stock_symbol)
              ELSE Ok(ParseJson(o.body).items[1].val))
        ELSE IF ~DecodesAsPolygonIoErrorResponse(o.body)
        THEN DeserializationErr(stock_symbol)
        ELSE Err("PolygonApi", ParseJson(o.body).message, NoString)]

\* lib.rs return_gold_market_cap
return_gold_market_cap(above_ground, keys, o) ==
    [requests |-> <<construct_forex_query_url(str_XAUUSD, keys.polygonio)>>,
     result |->
        IF ~o.sent THEN SendRequestErr
        ELSE IF ~o.read THEN BodyReadErr
        ELSE IF is_success(o.status)
        THEN (IF ~DecodesAsAggsTickerV2(o.body)
              THEN DeserializationErr(str_XAUUSD)
              ELSE IF ParseJson(o.body).items = <<>> THEN IndexPanic
              ELSE Ok(F64Mul(F64Mul(ParseJson(o.body).items[1].val, above_ground),
                             TONNE_TO_OUNCE)))
        ELSE IF ~DecodesAsPolygonIoErrorResponse(o.body)
        THEN DeserializationErr(str_XAUUSD)
        ELSE Err("PolygonApi", ParseJson(o.body).message, NoString)]

\* a crypto adapter that does not compare the body with "[]"
return_cyrpto_market_cap_no_empty_check(coingecko_id, keys, o) ==
    [requests |-> <<construct_coingecko_v3_markets_query_url(coingecko_id,
                                                             keys.coingecko)>>,
     result |->
        IF ~o.sent THEN SendRequestErr
        ELSE IF ~o.read THEN BodyReadErr
        ELSE IF is_success(o.status)
        THEN (IF ~DecodesAsCoingeckoMarkets(o.body)
              THEN DeserializationErr(coingecko_id)
              ELSE IF ParseJson(o.body).items = <<>> THEN IndexPanic
              ELSE Ok(ParseJson(o.body).items[1].val))
        ELSE Err("CoingeckoApi", o.body, NoString)]

\* lib.rs return_cyrpto_market_cap
return_cyrpto_market_cap(coingecko_id, keys, o) ==
    [requests |-> <<construct_coingecko_v3_markets_query_url(coingecko_id,
                                                             keys.coingecko)>>,
     result |->
        IF ~o.sent THEN SendRequestErr
        ELSE IF ~o.read THEN BodyReadErr
        ELSE IF is_success(o.status)
        THEN (IF o.body = "[]" THEN Err("CoingeckoApi", o.body, NoString)
              ELSE IF ~DecodesAsCoingeckoMarkets(o.body)
              THEN DeserializationErr(coingecko_id)
              ELSE IF ParseJson(o.body).items = <<>> THEN IndexPanic
              ELSE Ok(ParseJson(o.body).items[1].val))
        ELSE Err("CoingeckoApi", o.body, NoString)]

\* a dispatcher that sends an unknown identifier to the crypto adapter
return_market_cap_unknown_as_crypto(asset_name, keys, above_ground, o) ==
    LET class == identify_market_cap_type(asset_name)
    IN  IF class = "Gold" THEN return_gold_market_cap(above_ground, keys, o)
        ELSE IF class = "Stock"
        THEN return_stock_market_cap(asset_name, keys, o)
        ELSE return_cyrpto_market_cap(asset_name, keys, o)

\* main.rs return_market_cap
return_market_cap(asset_name, keys, above_ground, o) ==
    LET class == identify_market_cap_type(asset_name)
    IN  IF class = "Gold" THEN return_gold_market_cap(above_ground, keys, o)
        ELSE IF class = "Stock"
        THEN return_stock_market_cap(asset_name, keys, o)
        ELSE IF class = "Crypto"
        THEN return_cyrpto_market_cap(asset_name, keys, o)
        ELSE [requests |-> <<>>,
              result |-> Err("UnknownAssetName", "", asset_name)]

(***************************************************************************)
(* Ratio and presentation (main.rs 129-167).  A printed line is its format *)
(* with the values put in it: identifiers, unsigned integers and the       *)
(* market caps handed to numfmt's fmt2.                                     *)
(***************************************************************************)
BAR_LENGTH == 40

Line(fmt, assets, nums, caps) ==
    [fmt |-> fmt, assets |-> assets, nums |-> nums, caps |-> caps]

\* a selection whose tie goes to the first branch
ratio_selection_tie_first(asset_a, asset_b, left, right) ==
    IF ~F64Lt(right, left)
    THEN [ratio |-> F64Div(left, right),
          numerator_asset |-> asset_a, denominator_asset |-> asset_b,
          numerator_value |-> left, denominator_value |-> right]
    ELSE [ratio |-> F64Div(right, left),
          numerator_asset |-> asset_b, denominator_asset |-> asset_a,
          numerator_value |-> right, denominator_value |-> left]

\* a selection that never orders the pair
ratio_selection_left_over_right(asset_a, asset_b, left, right) ==
    [ratio |-> F64Div(left, right),
     numerator_asset |-> asset_a, denominator_asset |-> asset_b,
     numerator_value |-> left, denominator_value |-> right]

\* main.rs 129-146: (ratio, numerator_asset, denominator_asset,
\* numerator_value, denominator_value)
ratio_selection(asset_a, asset_b, left, right) ==
    IF F64Lt(left, right)
    THEN [ratio |-> F64Div(left, right),
          numerator_asset |-> asset_a, denominator_asset |-> asset_b,
          numerator_value |-> left, denominator_value |-> right]
    ELSE [ratio |-> F64Div(right, left),
          numerator_asset |-> asset_b, denominator_asset |-> asset_a,
          numerator_value |-> right, denominator_value |-> left]

\* main.rs 147: (ratio * 100.0) as u32
percentage_of(ratio) == F64AsUnsigned(F64Mul(ratio, F64OfInt(100)), 32)

\* main.rs create_ratio_gauge: the panic, or the gauge line
create_ratio_gauge(ratio, total_length) ==
    IF F64Lt(ratio, F64OfInt(0)) \/ F64Lt(F64OfInt(1), ratio)
    THEN [panic |-> TRUE, line |-> Line("", <<>>, <<>>, <<>>)]
    ELSE LET filled_length ==
                 BigToInt(F64AsUnsigned(F64RoundHalfAway(
                     F64Mul(ratio, F64OfInt(total_length))), 64))
             empty_length == total_length - filled_length
             percentage ==
                 F64AsUnsigned(F64RoundHalfAway(F64Mul(ratio, F64OfInt(100))), 64)
         IN  [panic |-> FALSE,
              line |-> Line("[{}{}] {}%", <<>>,
                            <<BigOfInt(filled_length), BigOfInt(empty_length),
                              percentage>>, <<>>)]

GaugePanic == Panic("Ratio must be between 0 and 1")

\* main.rs 148-149: println!("{} {} {}")
plain_line(t, percentage) ==
    Line("{} {} {}",
         <<t.numerator_asset, t.denominator_asset>>, <<percentage>>, <<>>)

\* main.rs 150-162: the json! document with both caps cast to u64
json_line(t, percentage) ==
    Line("json!({percentage, numerator: {asset, market_cap}, denominator: {asset, market_cap}})",
         <<t.numerator_asset, t.denominator_asset>>,
         <<percentage, F64AsUnsigned(t.numerator_value, 64),
           F64AsUnsigned(t.denominator_value, 64)>>, <<>>)

\* main.rs 163-167: the gauge and the two market cap lines, or the panic
gauge_output(t, percentage, gauge) ==
    IF gauge.panic
    THEN [sel |-> t, percentage |-> percentage, stdout |-> <<>>,
          stderr |-> <<GaugePanic>>, status |-> 101]
    ELSE [sel |-> t, percentage |-> percentage,
          stdout |-> <<gauge.line,
                       Line("{}: {}",
                            <<t.numerator_asset>>, <<>>, <<t.numerator_value>>),
                       Line("{}: {}",
                            <<t.denominator_asset>>, <<>>,
                            <<t.denominator_value>>)>>,
          stderr |-> <<>>, status |-> 0]

\* an output stage that prints the plain line and goes on to the json test
print_outputs_plain_falls_through(t, percentage, plain, json) ==
    [sel |-> t, percentage |-> percentage,
     stdout |-> (IF plain THEN <<plain_line(t, percentage)>> ELSE <<>>)
                \o (IF json THEN <<json_line(t, percentage)>> ELSE <<>>),
     stderr |-> <<>>, status |-> 0]

\* main.rs 148-167: if plain / else if json / else
print_outputs(t, percentage, plain, json) ==
    IF plain
    THEN [sel |-> t, percentage |-> percentage,
          stdout |-> <<plain_line(t, percentage)>>,
          stderr |-> <<>>, status |-> 0]
    ELSE IF json
    THEN [sel |-> t, percentage |-> percentage,
          stdout |-> <<json_line(t, percentage)>>,
          stderr |-> <<>>, status |-> 0]
    ELSE gauge_output(t, percentage, create_ratio_gauge(t.ratio, BAR_LENGTH))

\* main.rs 147-167 for a selection t
present_selected(t, plain, json) ==
    print_outputs(t, percentage_of(t.ratio), plain, json)

\* main.rs 129-167: the selection, the percentage, what is printed and the
\* exit status (0 when main returns, 101 when the gauge panics)
present(asset_a, asset_b, left, right, plain, json) ==
    present_selected(ratio_selection(asset_a, asset_b, left, right), plain, json)

(***************************************************************************)
(* The command line (main.rs 14-38 and Cli::parse, main.rs 89).  An         *)
(* argument is a string.  f64_from_str is the value parser of               *)
(* --above-ground, <f64 as FromStr>::from_str: an optional sign, then inf,  *)
(* infinity or nan in any case, or digits with an optional point and an     *)
(* optional exponent, read as the nearest f64.                              *)
(***************************************************************************)
\* 10^n, by halves of n
RECURSIVE BigPow10(_)
BigPow10(n) ==
    IF n = 0 THEN <<1>>
    ELSE IF n = 1 THEN <<10>>
    ELSE BigMul(BigPow10(n - (n \div 2)), BigPow10(n \div 2))

\* the natural number the decimal digits ds write, by halves of ds
RECURSIVE BigOfDigits(_)
BigOfDigits(ds) ==
    IF ds = <<>> THEN <<>>
    ELSE IF Len(ds) = 1 THEN BigOfInt(IndexIn(Digits, ds[1]) - 1)
    ELSE BigAdd(BigMul(BigPow10(Len(ds) - (Len(ds) \div 2)),
                       BigOfDigits(SubSeq(ds, 1, Len(ds) \div 2))),
                BigOfDigits(SubSeq(ds, (Len(ds) \div 2) + 1, Len(ds))))

\* the f64 nearest to (-1)^sign * d * 10^scale, for d with at most nd
\* digits: 10^310 is above every f64 and 10^-330 below half the smallest one
F64OfDecimal(sign, d, nd, scale) ==
    IF d = <<>> THEN F64Zero(sign)
    ELSE IF scale > 310 THEN F64Inf(sign)
    ELSE IF nd + scale < 0 - 330 THEN F64Zero(sign)
    ELSE IF scale >= 0
    THEN F64Round(sign, BigMul(d, BigPow10(scale)), 0, FALSE)
    ELSE F64OfRatio(sign, d, BigPow10(0 - scale), 0)

IsDigits(s) == \A i \in DOMAIN s : s[i] \in Range(Digits)

\* dec2flt's parse_scientific: the exponent the digits write after acc; once
\* it has reached 0x10000 the digits that follow are left out
RECURSIVE ExponentOf(_, _)
ExponentOf(edigits, acc) ==
    IF edigits = <<>> THEN acc
    ELSE ExponentOf(Tail(edigits),
                    IF acc < 65536
                    THEN acc * 10 + (IndexIn(Digits, Head(edigits)) - 1)
                    ELSE acc)

\* dec2flt's parse_number on the digits before and after the point and the
\* digits of the exponent (has_e: there is an e; esign: -1 when - follows it)
parse_number(sign, ipart, fpart, has_e, esign, edigits) ==
    IF /\ IsDigits(ipart)
       /\ IsDigits(fpart)
       /\ Len(ipart) + Len(fpart) > 0
       /\ has_e => (edigits # <<>> /\ IsDigits(edigits))
    THEN [ok |-> TRUE,
          v |-> F64OfDecimal(sign, BigOfDigits(ipart \o fpart),
                             Len(ipart) + Len(fpart),
                             esign * ExponentOf(edigits, 0) - Len(fpart))]
    ELSE [ok |-> FALSE, v |-> F64NaN]

\* the text mant before the e, cut at its first point, and the text expo
\* after the e
parse_parts(sign, mant, has_e, expo) ==
    parse_number(sign,
                 IF FirstIndex(mant, {"."}) = 0 THEN mant
                 ELSE SubSeq(mant, 1, FirstIndex(mant, {"."}) - 1),
                 IF FirstIndex(mant, {"."}) = 0 THEN <<>>
                 ELSE SubSeq(mant, FirstIndex(mant, {"."}) + 1, Len(mant)),
                 has_e,
                 IF expo # <<>> /\ expo[1] = "-" THEN 0 - 1 ELSE 1,
                 IF expo # <<>> /\ expo[1] \in {"-", "+"} THEN Tail(expo)
                 ELSE expo)

\* the text after the sign, with its first e or E at epos (0 without one)
parse_mantissa(sign, body, epos) ==
    parse_parts(sign,
                IF epos = 0 THEN body ELSE SubSeq(body, 1, epos - 1),
                epos # 0,
                IF epos = 0 THEN <<>> ELSE SubSeq(body, epos + 1, Len(body)))

\* dec2flt's parse_inf_nan, for a text that is no number (num): inf,
\* infinity and nan in any case
parse_inf_nan(num, sign, word) ==
    IF num.ok THEN num
    ELSE IF word \in {<<"i", "n", "f">>,
                      <<"i", "n", "f", "i", "n", "i", "t", "y">>}
    THEN [ok |-> TRUE, v |-> F64Inf(sign)]
    ELSE IF word = <<"n", "a", "n">> THEN [ok |-> TRUE, v |-> F64NaN]
    ELSE [ok |-> FALSE, v |-> F64NaN]

\* dec2flt on the text after the sign
dec2flt(sign, body) ==
    parse_inf_nan(parse_mantissa(sign, body, FirstIndex(body, {"e", "E"})),
                  sign, to_lowercase(body))

\* <f64 as FromStr>::from_str
f64_from_str(s) ==
    dec2flt(IF s # <<>> /\ s[1] = "-" THEN 1 ELSE 0,
            IF s # <<>> /\ s[1] \in {"-", "+"} THEN Tail(s) ELSE s)

str_ethereum == <<"e", "t", "h", "e", "r", "e", "u", "m">>
str_bitcoin == <<"b", "i", "t", "c", "o", "i", "n">>

(***************************************************************************)
(* clap's parser on the command of struct Cli: the positionals [ASSET_A]    *)
(* and [ASSET_B], the option --above-ground <ABOVE_GROUND>, the flags       *)
(* -p/--plain and -j/--json, and the -h/--help and -V/--version clap adds.  *)
(* The state of a parse is the struct being filled (it starts from the     *)
(* default values), the arguments seen, the argument whose values are      *)
(* pending, whether the last argument was an option that still wants its   *)
(* value, whether "--" was passed, the positional counter, and the way the *)
(* parse ended (kind "" while it goes on).                                  *)
(***************************************************************************)
NoPending == [id |-> "", long |-> FALSE, vals |-> <<>>]

ParserStart ==
    [cli |-> [asset_a |-> str_ethereum, asset_b |-> str_bitcoin,
              above_ground |-> f64_from_str(<<"2", "1", "2", "5", "8", "2">>).v,
              plain |-> FALSE, json |-> FALSE],
     seen |-> {},
     pending |-> NoPending,
     opt |-> FALSE, trailing |-> FALSE, pos |-> 1,
     out |-> [kind |-> "", arg |-> "", value |-> NoString]]

\* the parse ends: an error of clap's ErrorKind kind about the argument arg
\* and the value given, or the help or version display
Stop(st, kind, arg, value) ==
    [st EXCEPT !.out = [kind |-> kind, arg |-> arg, value |-> value]]

\* Arg's Display
ArgName(id) ==
    CASE id = "asset_a" -> "[ASSET_A]"
      [] id = "asset_b" -> "[ASSET_B]"
      [] id = "above_ground" -> "--above-ground <ABOVE_GROUND>"
      [] id = "plain" -> "--plain"
      [] id = "json" -> "--json"
      [] id = "help" -> "--help"
      [] id = "version" -> "--version"

\* Parser::push_arg_values on --above-ground: the value raw went through
\* the value parser
push_above_ground(st, raw, parsed) ==
    IF ~parsed.ok
    THEN Stop(st, "ValueValidation", ArgName("above_ground"), raw)
    ELSE [st EXCEPT !.seen = @ \cup {"above_ground"},
                    !.cli.above_ground = parsed.v]

\* Parser::react after the pending argument: the number of values is
\* verified, an argument given twice conflicts with itself, the values are
\* pushed; Help and Version end the parse
react_now(st, id, long, vals) ==
    CASE id \in {"asset_a", "asset_b", "above_ground"} ->
            IF vals = <<>> THEN Stop(st, "InvalidValue", ArgName(id), NoString)
            ELSE IF id \in st.seen
            THEN Stop(st, "ArgumentConflict", ArgName(id), NoString)
            ELSE IF id = "above_ground"
            THEN push_above_ground(st, vals[1], f64_from_str(vals[1]))
            ELSE [st EXCEPT !.seen = @ \cup {id}, !.cli[id] = vals[1]]
      [] id \in {"plain", "json"} ->
            IF id \in st.seen
            THEN Stop(st, "ArgumentConflict", ArgName(id), NoString)
            ELSE [st EXCEPT !.seen = @ \cup {id}, !.cli[id] = TRUE]
      [] id = "help" ->
            Stop(st, "DisplayHelp", IF long THEN "--help" ELSE "-h", NoString)
      [] id = "version" ->
            Stop(st, "DisplayVersion", IF long THEN "--version" ELSE "-V",
                 NoString)

\* Parser::resolve_pending
resolve_pending(st) ==
    IF st.pending.id = "" THEN st
    ELSE react_now([st EXCEPT !.pending = NoPending],
                   st.pending.id, st.pending.long, st.pending.vals)

\* after the pending argument (r is the parse once it is resolved): the
\* argument id becomes the pending one with the values vals (pend), or is
\* reacted to
react_resolved(r, id, long, vals, pend) ==
    IF r.out.kind # "" THEN r
    ELSE IF pend
    THEN [r EXCEPT !.pending = [id |-> id, long |-> long, vals |-> vals]]
    ELSE react_now(r, id, long, vals)

\* Parser::react and ArgMatcher::pending_values_mut: the pending argument
\* first
react(st, id, long, vals, pend) ==
    react_resolved(resolve_pending(st), id, long, vals, pend)

\* the argument of a long name, "" for an unknown one
LongId(name) ==
    CASE name = <<"a", "b", "o", "v", "e", "-", "g", "r", "o", "u", "n", "d">>
            -> "above_ground"
      [] name = <<"p", "l", "a", "i", "n">> -> "plain"
      [] name = <<"j", "s", "o", "n">> -> "json"
      [] name = <<"h", "e", "l", "p">> -> "help"
      [] name = <<"v", "e", "r", "s", "i", "o", "n">> -> "version"
      [] OTHER -> ""

\* the argument of a short name
ShortId(c) ==
    CASE c = "p" -> "plain"
      [] c = "j" -> "json"
      [] c = "h" -> "help"
      [] c = "V" -> "version"
      [] OTHER -> ""

\* Parser::parse_long_arg on --name or --name=value: --above-ground takes
\* the value given with = or waits for the next argument, a flag takes none
parse_long_arg(st, name, has_eq, value) ==
    IF LongId(name) = ""
    THEN Stop(st, "UnknownArgument", "", <<"-", "-">> \o name)
    ELSE IF LongId(name) # "above_ground" /\ has_eq
    THEN Stop(st, "TooManyValues", ArgName(LongId(name)), value)
    ELSE [react(st, LongId(name), TRUE,
                IF has_eq THEN <<value>> ELSE <<>>,
                LongId(name) = "above_ground" /\ ~has_eq)
             EXCEPT !.opt = LongId(name) = "above_ground" /\ ~has_eq]

\* Parser::parse_short_arg on the flags of -xyz, from the i-th on
RECURSIVE parse_short_arg(_, _, _)
parse_short_arg(st, flags, i) ==
    IF st.out.kind # "" THEN st
    ELSE IF i > Len(flags) THEN [st EXCEPT !.opt = FALSE]
    ELSE IF ShortId(flags[i]) = ""
    THEN Stop(st, "UnknownArgument", "", <<"-", flags[i]>>)
    ELSE parse_short_arg(react(st, ShortId(flags[i]), FALSE, <<>>, FALSE),
                         flags, i + 1)

\* RawArgs' to_long: the text after -- is a name, or a name, = and a value
to_long(st, rest, eq) ==
    parse_long_arg(st, IF eq = 0 THEN rest ELSE SubSeq(rest, 1, eq - 1),
                   eq # 0,
                   IF eq = 0 THEN NoString ELSE SubSeq(rest, eq + 1, Len(rest)))

\* one turn of the loop of Parser::get_matches_with: "--", a long argument,
\* short flags, the value of the option before it, or a positional, which
\* becomes the pending argument
parse_arg(st, arg) ==
    IF ~st.trailing /\ arg = <<"-", "-">>
    THEN [st EXCEPT !.trailing = TRUE]
    ELSE IF ~st.trailing /\ Len(arg) > 2 /\ SubSeq(arg, 1, 2) = <<"-", "-">>
    THEN to_long(st, SubSeq(arg, 3, Len(arg)),
                 FirstIndex(SubSeq(arg, 3, Len(arg)), {"="}))
    ELSE IF ~st.trailing /\ Len(arg) > 1 /\ arg[1] = "-"
    THEN parse_short_arg(st, Tail(arg), 1)
    ELSE IF ~st.trailing /\ st.opt
    THEN [st EXCEPT !.pending.vals = Append(@, arg), !.opt = FALSE]
    ELSE IF st.pos > 2 THEN Stop(st, "UnknownArgument", "", arg)
    ELSE [react(st, IF st.pos = 1 THEN "asset_a" ELSE "asset_b", FALSE,
                <<arg>>, TRUE)
             EXCEPT !.pos = @ + 1, !.opt = FALSE]

\* Parser::get_matches_with: the loop over the arguments from the i-th on,
\* then the last pending argument
RECURSIVE get_matches_with(_, _, _)
get_matches_with(st, args, i) ==
    IF st.out.kind # "" THEN st
    ELSE IF i > Len(args) THEN resolve_pending(st)
    ELSE get_matches_with(parse_arg(st, args[i]), args, i + 1)

\* Cli::parse on the arguments after the program name
Cli_parse(args) == get_matches_with(ParserStart, args, 1)

(***************************************************************************)
(* Spec: one invocation of the command line program (main.rs main), on the *)
(* command lines of CommandLines.  The positional arguments have clap      *)
(* defaults, so asset_a and asset_b are always Some and the two            *)
(* "Missing ... asset" exits cannot be taken.                               *)
(***************************************************************************)
str_GOLD == <<"G", "O", "L", "D">>
str_dog == <<"d", "o", "g">>
str_Go == <<"G", "o">>
str_A_hash_B == <<"A", "#", "B">>
str_key == <<"k", "e", "y">>

F64_212582 == [k |-> "fin", s |-> 0, m |-> <<7987, 3>>, e |-> 1]

EnvValues == {Unset, NotUnicode, SetTo(<<>>), SetTo(str_key)}
MainAssets ==
    {str_gold, str_GOLD, str_dog, str_Go, <<>>, <<".">>, str_A_hash_B}

\* the command lines: no, one or two identifiers followed by the options of
\* one of eight sets, and command lines with --help, --version, a value
\* after --above-ground, "--", and the arguments clap refuses
CommandLines ==
    LET above == <<"-", "-", "a", "b", "o", "v", "e", "-", "g", "r", "o", "u",
                   "n", "d">>
        minus1 == above \o <<"=", "-", "1">>
        plain == <<"-", "-", "p", "l", "a", "i", "n">>
        json == <<"-", "-", "j", "s", "o", "n">>
        help == <<"-", "-", "h", "e", "l", "p">>
        version == <<"-", "-", "v", "e", "r", "s", "i", "o", "n">>
        bogus == <<"-", "-", "b", "o", "g", "u", "s">>
        p == <<"-", "p">>
        pj == <<"-", "p", "j">>
        abc == <<"a", "b", "c">>
        identifiers == {<<>>, <<str_gold>>}
                          \cup {<<a, b>> : a \in MainAssets, b \in MainAssets}
        options == {<<>>, <<minus1>>, <<p>>, <<json>>, <<minus1, plain>>,
                    <<json, minus1>>, <<pj>>, <<minus1, plain, json>>}
    IN  {i \o o : i \in identifiers, o \in options}
        \cup {<<help>>, <<<<"-", "h">>>>, <<version>>, <<<<"-", "V">>>>,
              <<str_gold, help, bogus>>, <<bogus, help>>, <<bogus>>,
              <<above, help>>, <<help \o <<"=", "1">>>>,
              <<str_gold, str_dog, str_Go>>,
              <<above, abc, str_Go, str_Go>>, <<above \o <<"=">> \o abc>>,
              <<above, abc, bogus>>, <<above \o <<"=">>>>,
              <<above>>, <<above, <<"-", "1">>>>, <<above, plain>>,
              <<above, <<"-", "-">>, str_gold>>,
              <<above \o <<"=", "1">>, above \o <<"=", "2">>>>,
              <<plain, plain>>, <<p, plain>>, <<<<"-", "p", "p">>>>,
              <<<<"-", "p", "x">>>>, <<plain \o <<"=", "t", "r", "u", "e">>>>,
              <<<<"-", "-", "p", "l", "a">>>>, <<<<"-">>, str_dog>>,
              <<<<"-", "-">>, <<"-", "1">>, plain>>,
              <<str_gold, <<"-", "-">>, str_dog>>,
              <<str_dog, above, <<"2", "e", "5">>, str_gold>>,
              <<above, <<"0", ".", "1">>, str_gold, str_dog>>,
              <<above \o <<"=", "-", "I", "n", "f">>, str_gold, str_dog>>,
              <<above \o <<"=", "n", "a", "n">>, str_gold, str_dog, json>>,
              <<above \o <<"=", "1", "e">>>>,
              <<above \o <<"=", "+", ".", "5", "E", "-", "1">>, str_gold,
                str_dog, p>>}

MainBodies(class) ==
    CASE class = "Stock" ->
            {"{status: OK, request_id: r, results: {<all fields>, market_cap: 1}}",
             "{status: OK, request_id: r, results: {<all fields>, market_cap: 3}}",
             "{status: NOT_FOUND, request_id: r, message: Ticker not found.}"}
      [] class = "Gold" ->
            {"{<all fields>, results: [{<all fields>, c: 2}]}",
             "{<all fields>, results: []}",
             "{status: NOT_FOUND, request_id: r, message: Ticker not found.}"}
      [] class = "Crypto" ->
            {"[{<all fields>, market_cap: 1}]",
             "[{<all fields>, market_cap: 3}]",
             "[]", "[ ]"}
      [] OTHER -> {}

Statuses == {200, 404}

OutcomesOver(bodies) ==
    {Outcome(FALSE, 0, FALSE, ""), Outcome(TRUE, 200, FALSE, "")}
        \cup {Outcome(TRUE, st, TRUE, b) : st \in Statuses, b \in bodies}

\* the dispatcher makes no request for an unknown identifier: no outcome
MainOutcomes(asset_name) ==
    IF identify_market_cap_type(asset_name) = "Unknown"
    THEN {Outcome(FALSE, 0, FALSE, "")}
    ELSE OutcomesOver(MainBodies(identify_market_cap_type(asset_name)))

\* cli before Cli::parse has returned
NoCli ==
    [asset_a |-> <<>>, asset_b |-> <<>>, above_ground |-> F64Zero(0),
     plain |-> FALSE, json |-> FALSE]

IdleMain ==
    /\ argv = <<>>
    /\ env = [POLYGON_KEY |-> Unset, COINGECKO_KEY |-> Unset]
    /\ cli = NoCli
    /\ pc = "idle"
    /\ apikeys = ApiKeysDefault
    /\ requests = <<>>
    /\ left_hand_market_cap = NoResult
    /\ right_hand_market_cap = NoResult
    /\ stdout = <<>>
    /\ stderr = <<>>
    /\ exit_status = 0

IdleClassify == cid = <<>> /\ cclass = "none"

NoCall == [adapter |-> "none", id |-> NoString, above_ground |-> F64Zero(0),
           o |-> Outcome(FALSE, 0, FALSE, "")]
NoReturn == [requests |-> <<>>, result |-> NoResult]

IdleAdapter == ad_call = NoCall /\ ad_ret = NoReturn

NoRun ==
    [run |-> FALSE,
     out |-> [sel |-> [ratio |-> F64NaN, numerator_asset |-> NoString,
                       denominator_asset |-> NoString,
                       numerator_value |-> F64NaN, denominator_value |-> F64NaN],
              percentage |-> <<>>, stdout |-> <<>>, stderr |-> <<>>,
              status |-> 0]]

IdleRatio ==
    /\ rt_in = [asset_a |-> NoString, asset_b |-> NoString, left |-> F64NaN,
                right |-> F64NaN, plain |-> FALSE, json |-> FALSE]
    /\ rt_ab = NoRun
    /\ rt_ba = NoRun

Init ==
    /\ argv \in CommandLines
    /\ env \in [POLYGON_KEY : EnvValues, COINGECKO_KEY : EnvValues]
    /\ cli = NoCli
    /\ pc = "parse"
    /\ apikeys = ApiKeysDefault
    /\ requests = <<>>
    /\ left_hand_market_cap = NoResult
    /\ right_hand_market_cap = NoResult
    /\ stdout = <<>>
    /\ stderr = <<>>
    /\ exit_status = 0
    /\ IdleClassify
    /\ IdleAdapter
    /\ IdleRatio

\* eprintln!("{error}"); process::exit(1), or the abort of a panic
Fail(result) ==
    /\ stderr' = Append(stderr, result)
    /\ exit_status' = IF result.tag = "Panic" THEN 101 ELSE 1
    /\ pc' = "exited"

\* clap's Error::exit: the help or the version on standard output and exit
\* status 0, or the error on standard error and exit status 2
ClapExit(out) ==
    IF out.kind \in {"DisplayHelp", "DisplayVersion"}
    THEN /\ stdout' = Append(stdout, Line(out.kind, <<>>, <<>>, <<>>))
         /\ exit_status' = 0
         /\ UNCHANGED stderr
    ELSE /\ stderr' = Append(stderr, ClapError(out.kind, out.arg, out.value))
         /\ exit_status' = 2
         /\ UNCHANGED stdout

\* main.rs 89: Cli::parse()
ParseCommandLine ==
    /\ pc = "parse"
    /\ \E r \in {Cli_parse(argv)} :
           IF r.out.kind = ""
           THEN /\ cli' = r.cli
                /\ pc' = "get_required_envs"
                /\ UNCHANGED <<stdout, stderr, exit_status>>
           ELSE /\ ClapExit(r.out)
                /\ pc' = "exited"
                /\ UNCHANGED cli
    /\ UNCHANGED <<argv, env, apikeys, requests, left_hand_market_cap,
                   right_hand_market_cap>>

\* main.rs 90-96
LoadConfig ==
    /\ pc = "get_required_envs"
    /\ \E r \in {get_required_envs(env)} :
           IF r.ok
           THEN /\ apikeys' = r.keys
                /\ pc' = "fetch_a"
                /\ UNCHANGED <<stderr, exit_status>>
           ELSE /\ Fail(r.err)
                /\ UNCHANGED apikeys
    /\ UNCHANGED <<argv, env, cli, requests, left_hand_market_cap,
                   right_hand_market_cap, stdout>>

\* a first fetch that reports its error and goes on to the second fetch
FetchA_goes_on_after_error ==
    /\ pc = "fetch_a"
    /\ \E o \in MainOutcomes(cli.asset_a) :
         \E r \in {return_market_cap(cli.asset_a, apikeys,
                                     cli.above_ground, o)} :
             /\ requests' = requests \o r.requests
             /\ left_hand_market_cap' = r.result
             /\ pc' = "fetch_b"
             /\ stderr' = IF r.result.tag = "Ok" THEN stderr
                          ELSE Append(stderr, r.result)
             /\ UNCHANGED exit_status
    /\ UNCHANGED <<argv, env, cli, apikeys, right_hand_market_cap, stdout>>

\* main.rs 112-119
FetchA ==
    /\ pc = "fetch_a"
    /\ \E o \in MainOutcomes(cli.asset_a) :
         \E r \in {return_market_cap(cli.asset_a, apikeys,
                                     cli.above_ground, o)} :
             /\ requests' = requests \o r.requests
             /\ left_hand_market_cap' = r.result
             /\ IF r.result.tag = "Ok"
                THEN pc' = "fetch_b" /\ UNCHANGED <<stderr, exit_status>>
                ELSE Fail(r.result)
    /\ UNCHANGED <<argv, env, cli, apikeys, right_hand_market_cap, stdout>>

\* main.rs 120-127
FetchB ==
    /\ pc = "fetch_b"
    /\ \E o \in MainOutcomes(cli.asset_b) :
         \E r \in {return_market_cap(cli.asset_b, apikeys,
                                     cli.above_ground, o)} :
             /\ requests' = requests \o r.requests
             /\ right_hand_market_cap' = r.result
             /\ IF r.result.tag = "Ok"
                THEN pc' = "present" /\ UNCHANGED <<stderr, exit_status>>
                ELSE Fail(r.result)
    /\ UNCHANGED <<argv, env, cli, apikeys, left_hand_market_cap, stdout>>

\* main.rs 129-168
Present ==
    /\ pc = "present"
    /\ \E out \in {present(cli.asset_a, cli.asset_b,
                          left_hand_market_cap.cap,
                          right_hand_market_cap.cap, cli.plain, cli.json)} :
           /\ stdout' = stdout \o out.stdout
           /\ stderr' = stderr \o out.stderr
           /\ exit_status' = out.status
    /\ pc' = "exited"
    /\ UNCHANGED <<argv, env, cli, apikeys, requests, left_hand_market_cap,
                   right_hand_market_cap>>

Next ==
    \/ ParseCommandLine /\ UNCHANGED <<cvars, advars, rtvars>>
    \/ LoadConfig /\ UNCHANGED <<cvars, advars, rtvars>>
    \/ FetchA /\ UNCHANGED <<cvars, advars, rtvars>>
    \/ FetchB /\ UNCHANGED <<cvars, advars, rtvars>>
    \/ Present /\ UNCHANGED <<cvars, advars, rtvars>>

Spec == Init /\ [][Next]_vars

(***************************************************************************)
(* SpecClassify: the classifier applied to every identifier of at most     *)
(* MaxIdLen characters over InputChars.                                     *)
(***************************************************************************)
MaxIdLen == 4
InputChars == {"g", "o", "l", "d", "G", "1", "eszett", "zhong"}

RECURSIVE SeqsUpTo(_, _)
SeqsUpTo(S, n) ==
    IF n = 0 THEN {<<>>}
    ELSE LET shorter == SeqsUpTo(S, n - 1)
         IN  shorter \cup {Append(s, c) : s \in shorter, c \in S}

Identifiers == SeqsUpTo(InputChars, MaxIdLen)

\* the identifiers of main.rs's tests
TestIdentifiers ==
    {str_gold, str_Gold, str_ethereum, <<"A", "A", "P", "L">>,
     <<"F", "o", "o", "B", "a", "r">>}

InitClassify ==
    /\ cid \in Identifiers \cup TestIdentifiers
    /\ cclass = "none"
    /\ IdleMain
    /\ IdleAdapter
    /\ IdleRatio

Classify ==
    /\ cclass = "none"
    /\ cclass' = identify_market_cap_type(cid)
    /\ UNCHANGED cid

NextClassify == Classify /\ UNCHANGED <<mainvars, advars, rtvars>>

SpecClassify == InitClassify /\ [][NextClassify]_vars

Letters ==
    Range(LowerAscii) \cup Range(UpperAscii)
        \cup {"eszett", "I_dot", "dotless_i", "Dz_title", "DZ_upper",
              "dz_lower", "zhong"}

HasLetter(s) == \E i \in DOMAIN s : s[i] \in Letters

\* C1: an identifier with at least one letter is Gold when it is exactly
\* "gold" or "Gold", otherwise Stock (Equity) when it equals its own
\* uppercasing, otherwise Crypto when it equals its own lowercasing,
\* otherwise Unknown; the result is one of the four classes.  The
\* identifiers of the repository's tests get the class the tests expect:
\* ethereum Crypto, AAPL Stock, FooBar Unknown.
C1_Classification ==
    (cclass # "none" /\ HasLetter(cid)) =>
        /\ cclass \in {"Gold", "Stock", "Crypto", "Unknown"}
        /\ (cid \in {str_gold, str_Gold}) => cclass = "Gold"
        /\ (cid \notin {str_gold, str_Gold} /\ cid = to_uppercase(cid))
              => cclass = "Stock"
        /\ (cid \notin {str_gold, str_Gold} /\ cid # to_uppercase(cid)
              /\ cid = to_lowercase(cid)) => cclass = "Crypto"
        /\ (cid \notin {str_gold, str_Gold} /\ cid # to_uppercase(cid)
              /\ cid # to_lowercase(cid)) => cclass = "Unknown"
        /\ cid = str_ethereum => cclass = "Crypto"
        /\ cid = <<"A", "A", "P", "L">> => cclass = "Stock"
        /\ cid = <<"F", "o", "o", "B", "a", "r">> => cclass = "Unknown"

C1_Witness ==
    /\ cid = str_Gold
    /\ cclass = "Gold"

(***************************************************************************)
(* SpecAdapter: one call of an adapter, or of the dispatcher, on every     *)
(* outcome of its request: send() failing, text() failing, and every       *)
(* status of AdapterStatuses with every body of AllBodies.                  *)
(***************************************************************************)

AdapterKeys ==
    [coingecko |-> <<"c", "g", " ", "k", "e", "y">>,
     polygonio |-> <<"p", "g", "-", "k", "e", "y">>]

AllBodies ==
    {"[]", "[ ]",
     "[{<all fields>, market_cap: 1}]",
     "[{<all fields>, market_cap: 3}]",
     "[{<all fields>, market_cap: 3}, {<all fields>, market_cap: 1}]",
     "[{<all fields>, market_cap: 1, extra: 0}]",
     "[{<all fields but max_supply, roi>, market_cap: 1}]",
     "[{<all fields>, market_cap: 1, fully_diluted_valuation: null}]",
     "[{market_cap: 1}]",
     "[{<all fields but market_cap>}]",
     "{status: {error_code: 429, error_message: throttled}}",
     "{status: OK, request_id: r, results: {<all fields>, market_cap: 1}}",
     "{status: OK, request_id: r, results: {<all fields>, market_cap: 3}}",
     "{status: OK, request_id: r, results: {<all fields>, market_cap: 1, extra: 0}}",
     "{status: OK, request_id: r, results: {<all fields but branding, description, homepage_url, list_date>, market_cap: 1}}",
     "{status: OK, request_id: r, results: {<all fields but total_employees>, market_cap: 1}}",
     "{status: OK, request_id: r, results: {market_cap: 1}}",
     "{results: {<all fields>, market_cap: 1}}",
     "{status: OK, request_id: r, results: {<all fields but market_cap>}}",
     "{<all fields>, results: [{<all fields>, c: 2559.15}]}",
     "{<all fields>, results: [{<all fields>, c: 2}]}",
     "{<all fields>, results: [{<all fields>, c: 2}], extra: 0}",
     "{<all fields>, results: []}",
     "{<all fields but results>}",
     "{results: [{c: 2}]}",
     "{<all fields>, results: [{<all fields but n>, c: 2}]}",
     "{<all fields>, results: [{<all fields but c>}]}",
     "{status: NOT_FOUND, request_id: r, message: Ticker not found.}",
     "{status: ERROR, request_id: r, error: Unknown API Key}",
     "<html>Bad Gateway</html>",
     ""}

AdapterStatuses == {199, 200, 299, 300, 404}

AdapterOutcomes ==
    {Outcome(FALSE, 0, FALSE, "")}
        \cup {Outcome(TRUE, st, FALSE, "") : st \in {200, 404}}
        \cup {Outcome(TRUE, st, TRUE, b) : st \in AdapterStatuses, b \in AllBodies}

AdapterCall(adapter, id, above_ground, o) ==
    [adapter |-> adapter, id |-> id, above_ground |-> above_ground, o |-> o]

InitAdapter ==
    /\ ad_call \in
          {AdapterCall("stock", str_GOLD, F64Zero(0), o) : o \in AdapterOutcomes}
          \cup {AdapterCall("gold", NoString, g, o) :
                    g \in {F64_212582, F64OfInt(0 - 1)}, o \in AdapterOutcomes}
          \cup {AdapterCall("crypto", str_dog, F64Zero(0), o) :
                    o \in AdapterOutcomes}
          \cup {AdapterCall("dispatch", id, F64_212582, o) :
                    id \in MainAssets \cup {str_Gold, <<"1">>, str_ethereum},
                    o \in AdapterOutcomes}
    /\ ad_ret = NoReturn
    /\ IdleMain
    /\ IdleClassify
    /\ IdleRatio

CallStock ==
    /\ ad_call.adapter = "stock"
    /\ ad_ret = NoReturn
    /\ ad_ret' = return_stock_market_cap(ad_call.id, AdapterKeys, ad_call.o)
    /\ UNCHANGED ad_call

CallGold ==
    /\ ad_call.adapter = "gold"
    /\ ad_ret = NoReturn
    /\ ad_ret' = return_gold_market_cap(ad_call.above_ground, AdapterKeys,
                                        ad_call.o)
    /\ UNCHANGED ad_call

CallCrypto ==
    /\ ad_call.adapter = "crypto"
    /\ ad_ret = NoReturn
    /\ ad_ret' = return_cyrpto_market_cap(ad_call.id, AdapterKeys, ad_call.o)
    /\ UNCHANGED ad_call

\* main.rs return_market_cap; the outcome is not consulted for an identifier
\* that makes no request
CallDispatch ==
    /\ ad_call.adapter = "dispatch"
    /\ ad_ret = NoReturn
    /\ ad_ret' = return_market_cap(ad_call.id, AdapterKeys,
                                   ad_call.above_ground, ad_call.o)
    /\ UNCHANGED ad_call

NextAdapter ==
    \/ CallStock /\ UNCHANGED <<mainvars, cvars, rtvars>>
    \/ CallGold /\ UNCHANGED <<mainvars, cvars, rtvars>>
    \/ CallCrypto /\ UNCHANGED <<mainvars, cvars, rtvars>>
    \/ CallDispatch /\ UNCHANGED <<mainvars, cvars, rtvars>>

SpecAdapter == InitAdapter /\ [][NextAdapter]_vars

(***************************************************************************)
(* SpecRatio: the ratio and presentation stage on a pair of identifiers    *)
(* and a pair of market caps, run once as (asset_a, asset_b) and once as   *)
(* (asset_b, asset_a).  The caps are values an adapter can return: any     *)
(* number of a JSON body, and a gold cap of either sign.                    *)
(***************************************************************************)
RatioCaps ==
    {F64Zero(0), F64Zero(1), F64OfInt(1), F64OfInt(2), F64OfInt(3),
     F64OfInt(29), F64OfInt(100), F64OfInt(0 - 1),
     F64Pow2(0 - 1074), F64Pow2(1023)}

RatioAssets == {str_gold, str_dog}

InitRatio ==
    /\ rt_in \in [asset_a : RatioAssets, asset_b : RatioAssets,
                  left : RatioCaps, right : RatioCaps,
                  plain : BOOLEAN, json : BOOLEAN]
    /\ rt_ab = NoRun
    /\ rt_ba = NoRun
    /\ IdleMain
    /\ IdleClassify
    /\ IdleAdapter

\* main.rs 129-167 on (asset_a, asset_b)
RunAB ==
    /\ ~rt_ab.run
    /\ rt_ab' = [run |-> TRUE,
                 out |-> present(rt_in.asset_a, rt_in.asset_b, rt_in.left,
                                 rt_in.right, rt_in.plain, rt_in.json)]
    /\ UNCHANGED <<rt_in, rt_ba>>

\* main.rs 129-167 on (asset_b, asset_a)
RunBA ==
    /\ ~rt_ba.run
    /\ rt_ba' = [run |-> TRUE,
                 out |-> present(rt_in.asset_b, rt_in.asset_a, rt_in.right,
                                 rt_in.left, rt_in.plain, rt_in.json)]
    /\ UNCHANGED <<rt_in, rt_ab>>

NextRatio ==
    \/ RunAB /\ UNCHANGED <<mainvars, cvars, advars>>
    \/ RunBA /\ UNCHANGED <<mainvars, cvars, advars>>

SpecRatio == InitRatio /\ [][NextRatio]_vars

(***************************************************************************)
(* Properties of the dispatcher and of the crypto adapter (SpecAdapter).   *)
(***************************************************************************)
Returned == ad_ret # NoReturn

\* C2: the dispatcher's requests and result are those of the gold adapter
\* (called with the tonnage) for a Gold identifier, of the equity adapter for
\* a Stock identifier, of the crypto adapter for a Crypto identifier; for an
\* Unknown identifier it issues no request and returns the UnknownAssetName
\* error that carries the identifier.
C2_Dispatch ==
    (ad_call.adapter = "dispatch" /\ Returned) =>
        /\ identify_market_cap_type(ad_call.id) = "Gold" =>
              ad_ret = return_gold_market_cap(ad_call.above_ground,
                                              AdapterKeys, ad_call.o)
        /\ identify_market_cap_type(ad_call.id) = "Stock" =>
              ad_ret = return_stock_market_cap(ad_call.id, AdapterKeys,
                                               ad_call.o)
        /\ identify_market_cap_type(ad_call.id) = "Crypto" =>
              ad_ret = return_cyrpto_market_cap(ad_call.id, AdapterKeys,
                                                ad_call.o)
        /\ identify_market_cap_type(ad_call.id) = "Unknown" =>
              /\ ad_ret.requests = <<>>
              /\ ad_ret.result = Err("UnknownAssetName", "", ad_call.id)

C2_Witness ==
    /\ ad_call.adapter = "dispatch"
    /\ ad_call.id = str_Go
    /\ ad_ret.requests = <<>>
    /\ ad_ret.result = Err("UnknownAssetName", "", str_Go)

\* C6: the dispatcher called with the empty identifier issues no request and
\* returns the UnknownAssetName error.
C6_EmptyIdentifierRejected ==
    (ad_call.adapter = "dispatch" /\ ad_call.id = <<>> /\ Returned) =>
        /\ ad_ret.requests = <<>>
        /\ ad_ret.result.tag = "Err"
        /\ ad_ret.result.kind = "UnknownAssetName"

\* C10: for a response whose body was read, the crypto adapter returns the
\* CoingeckoApi error carrying the body when the status is not 2xx, and the
\* CoingeckoApi error carrying "[]" when the status is 2xx and the body is
\* "[]"; when it returns a market cap the status is 2xx, the body is a JSON
\* array with at least one element and the cap is the market_cap of the
\* first element.
C10_CryptoAdapter ==
    (ad_call.adapter = "crypto" /\ Returned /\ ad_call.o.sent /\ ad_call.o.read)
    =>  /\ ~(200 <= ad_call.o.status /\ ad_call.o.status <= 299) =>
              ad_ret.result = Err("CoingeckoApi", ad_call.o.body, NoString)
        /\ ((200 <= ad_call.o.status /\ ad_call.o.status <= 299)
               /\ ad_call.o.body = "[]") =>
              ad_ret.result = Err("CoingeckoApi", "[]", NoString)
        /\ ad_ret.result.tag = "Ok" =>
              /\ 200 <= ad_call.o.status /\ ad_call.o.status <= 299
              /\ ParseJson(ad_call.o.body).top = "array"
              /\ ParseJson(ad_call.o.body).items # <<>>
              /\ ad_ret.result.cap = ParseJson(ad_call.o.body).items[1].val

C10_Witness ==
    /\ ad_call.adapter = "crypto"
    /\ ad_call.o.status = 299
    /\ ad_call.o.body
          = "[{<all fields>, market_cap: 3}, {<all fields>, market_cap: 1}]"
    /\ ad_ret.result = Ok(F64OfInt(3))

(***************************************************************************)
(* Properties of one invocation (Spec).                                     *)
(***************************************************************************)
Exited == pc = "exited"

\* the command line is one clap accepts: Cli::parse returns and main goes on
Accepted == Cli_parse(argv).out.kind = ""

\* get_required_envs has been called
Loaded == Accepted /\ pc \notin {"parse", "get_required_envs"}

Failed(result) == result.tag \in {"Err", "Panic"}

\* the URLs a fetch of asset_name can ask for, whatever its class
UrlsFor(asset_name) ==
    {construct_forex_query_url(str_XAUUSD, apikeys.polygonio),
     construct_tickerdetailsv3_query_url(asset_name, apikeys.polygonio),
     construct_coingecko_v3_markets_query_url(asset_name, apikeys.coingecko)}

\* C3: at most two requests are issued; asset_b is fetched only after the
\* fetch of asset_a has returned a market cap, and the first request is the
\* one for asset_a; when the fetch of asset_a fails, asset_b is never
\* fetched, at most the request for asset_a was issued, and the error
\* reported is the one of asset_a.
C3_SequentialFetches ==
    /\ Len(requests) <= 2
    /\ right_hand_market_cap # NoResult => left_hand_market_cap.tag = "Ok"
    /\ (left_hand_market_cap # NoResult /\ requests # <<>>) =>
          requests[1] \in UrlsFor(cli.asset_a)
    /\ Len(requests) = 2 => requests[2] \in UrlsFor(cli.asset_b)
    /\ Failed(left_hand_market_cap) =>
          /\ right_hand_market_cap = NoResult
          /\ Len(requests) <= 1
          /\ stderr = <<left_hand_market_cap>>
          /\ Exited

C3_Witness ==
    /\ Exited
    /\ cli.asset_a = str_GOLD
    /\ cli.asset_b = str_dog
    /\ left_hand_market_cap = Err("PolygonApi", "Ticker not found.", NoString)
    /\ Len(requests) = 1
    /\ right_hand_market_cap = NoResult

\* C4: a run on an accepted command line that has ended either failed, with
\* a message on standard error, nothing on standard output and exit status 1,
\* or had both fetches succeed, rendered its result on standard output and
\* has exit status 0; a run whose two fetches succeeded ends the second way.
C4_ExitOutcomes ==
    (Exited /\ Accepted) =>
        /\ \/ /\ exit_status = 1
              /\ stderr # <<>>
              /\ stdout = <<>>
           \/ /\ exit_status = 0
              /\ stdout # <<>>
              /\ left_hand_market_cap.tag = "Ok"
              /\ right_hand_market_cap.tag = "Ok"
        /\ (left_hand_market_cap.tag = "Ok" /\ right_hand_market_cap.tag = "Ok")
              => (exit_status = 0 /\ stdout # <<>>)

IsSet(x) == x.st = "set"
Absent(x) == x.st = "unset" \/ (x.st = "set" /\ x.v = <<>>)

EnvMissing(name) == <<Err("EnvVarError", name, NoString)>>

\* C5 as stated: once get_required_envs has been called, with POLYGON_KEY
\* unset or empty the run ends with the EnvVarError naming POLYGON_KEY,
\* otherwise with COINGECKO_KEY unset or empty it ends with the EnvVarError
\* naming COINGECKO_KEY, in both cases without any request; no run goes on
\* with only one key.
C5_EmptyCountsAsAbsent ==
    Loaded =>
        /\ Absent(env.POLYGON_KEY) =>
              (Exited /\ stderr = EnvMissing("POLYGON_KEY") /\ requests = <<>>)
        /\ (~Absent(env.POLYGON_KEY) /\ Absent(env.COINGECKO_KEY)) =>
              (Exited /\ stderr = EnvMissing("COINGECKO_KEY") /\ requests = <<>>)

\* C5 amended: a variable is missing when std::env::var gives no value for it
\* (unset, or not valid Unicode); the empty string is a value.  Once
\* get_required_envs has been called: with
\* POLYGON_KEY missing the run ends with the EnvVarError naming POLYGON_KEY,
\* otherwise with COINGECKO_KEY missing it ends with the EnvVarError naming
\* COINGECKO_KEY, in both cases with exit status 1, no key loaded and no
\* request issued; otherwise both keys are loaded as they stand in the
\* environment and no EnvVarError is reported.
C5_ConfigLoading ==
    Loaded =>
        /\ ~IsSet(env.POLYGON_KEY) =>
              /\ Exited
              /\ stderr = EnvMissing("POLYGON_KEY")
              /\ exit_status = 1
              /\ requests = <<>>
              /\ apikeys = ApiKeysDefault
        /\ (IsSet(env.POLYGON_KEY) /\ ~IsSet(env.COINGECKO_KEY)) =>
              /\ Exited
              /\ stderr = EnvMissing("COINGECKO_KEY")
              /\ exit_status = 1
              /\ requests = <<>>
              /\ apikeys = ApiKeysDefault
        /\ (IsSet(env.POLYGON_KEY) /\ IsSet(env.COINGECKO_KEY)) =>
              /\ apikeys = [coingecko |-> env.COINGECKO_KEY.v,
                            polygonio |-> env.POLYGON_KEY.v]
              /\ \A i \in DOMAIN stderr : stderr[i].kind # "EnvVarError"

C5_Witness ==
    /\ env.POLYGON_KEY = SetTo(<<>>)
    /\ env.COINGECKO_KEY = Unset
    /\ Exited
    /\ stderr = EnvMissing("COINGECKO_KEY")
    /\ requests = <<>>

\* C9: a run on an accepted command line (one that is not ended by clap's
\* --help or --version display) that ends with exit status 0 has printed
\* exactly one form: the
\* one plain line when --plain is set (with or without --json), the one JSON
\* line when only --json is set, and the gauge line followed by the
\* numerator line and the denominator line when neither is set.
C9_OneOutputForm ==
    (Exited /\ Accepted /\ exit_status = 0) =>
        /\ cli.plain =>
              /\ Len(stdout) = 1
              /\ stdout[1].fmt = "{} {} {}"
        /\ (~cli.plain /\ cli.json) =>
              /\ Len(stdout) = 1
              /\ stdout[1].fmt = "json!({percentage, numerator: {asset, market_cap}, denominator: {asset, market_cap}})"
        /\ (~cli.plain /\ ~cli.json) =>
              /\ Len(stdout) = 3
              /\ stdout[1].fmt = "[{}{}] {}%"
              /\ stdout[2].fmt = "{}: {}"
              /\ stdout[3].fmt = "{}: {}"

C9_Witness ==
    /\ Exited
    /\ exit_status = 0
    /\ cli.plain
    /\ cli.json
    /\ Len(stdout) = 1
    /\ stdout[1].fmt = "{} {} {}"

(***************************************************************************)
(* Properties of the ratio and presentation stage (SpecRatio).             *)
(***************************************************************************)
FinitePositive(x) == x.k = "fin" /\ x.s = 0 /\ x.m # <<>>

\* floor(log2 x) of a finite non-zero x
Log2Floor(x) == x.e + BigBitLen(x.m) - 1

PositiveCaps == FinitePositive(rt_in.left) /\ FinitePositive(rt_in.right)

\* the selection of the run on (asset_a, asset_b) takes the smaller cap as
\* numerator, and on a tie takes asset_b
SelectsSmaller(sel) ==
    /\ F64Lt(rt_in.left, rt_in.right) =>
          /\ sel.numerator_asset = rt_in.asset_a
          /\ sel.numerator_value = rt_in.left
          /\ sel.denominator_asset = rt_in.asset_b
          /\ sel.denominator_value = rt_in.right
    /\ ~F64Lt(rt_in.left, rt_in.right) =>
          /\ sel.numerator_asset = rt_in.asset_b
          /\ sel.numerator_value = rt_in.right
          /\ sel.denominator_asset = rt_in.asset_a
          /\ sel.denominator_value = rt_in.left
    /\ ~F64Lt(sel.denominator_value, sel.numerator_value)
    /\ sel.ratio = F64Div(sel.numerator_value, sel.denominator_value)

\* C7 as stated: for finite positive caps the numerator is the asset with the
\* strictly smaller cap, on a tie asset_b is the numerator, and the ratio is
\* greater than 0 and at most 1.
C7_RatioInHalfOpenUnit ==
    (rt_ab.run /\ PositiveCaps) =>
        /\ SelectsSmaller(rt_ab.out.sel)
        /\ F64Lt(F64Zero(0), rt_ab.out.sel.ratio)
        /\ ~F64Lt(F64OfInt(1), rt_ab.out.sel.ratio)

\* C7 amended: for finite positive caps the numerator is the asset with the
\* strictly smaller cap, on a tie asset_b is the numerator, and the ratio is
\* a number of [0,1]; it is 0 only when the quotient underflows, the
\* numerator being at least 1075 binary orders of magnitude below the
\* denominator, and greater than 0 otherwise.
C7_RatioInUnit ==
    (rt_ab.run /\ PositiveCaps) =>
        /\ SelectsSmaller(rt_ab.out.sel)
        /\ rt_ab.out.sel.ratio.k = "fin"
        /\ ~F64Lt(rt_ab.out.sel.ratio, F64Zero(0))
        /\ ~F64Lt(F64OfInt(1), rt_ab.out.sel.ratio)
        /\ F64IsZero(rt_ab.out.sel.ratio) =>
              Log2Floor(rt_ab.out.sel.numerator_value)
                 - Log2Floor(rt_ab.out.sel.denominator_value) <= 0 - 1075

C7_Witness ==
    /\ rt_ab.run
    /\ rt_in.left = F64Pow2(1023)
    /\ rt_in.right = F64Pow2(0 - 1074)
    /\ rt_in.asset_a = str_gold
    /\ rt_in.asset_b = str_dog
    /\ rt_ab.out.sel.numerator_asset = str_dog
    /\ rt_ab.out.sel.ratio = F64Zero(0)

BothRun == rt_ab.run /\ rt_ba.run

GaugeMode == ~rt_in.plain /\ ~rt_in.json

Tie == ~F64Lt(rt_in.left, rt_in.right) /\ ~F64Lt(rt_in.right, rt_in.left)

\* C8 as stated: the run on (asset_a, asset_b) and the run on (asset_b,
\* asset_a) have the same ratio and the same truncated percentage, and in
\* gauge mode the same output, whatever the caps.
C8_SwapSameGaugeOutput ==
    BothRun =>
        /\ rt_ab.out.sel.ratio = rt_ba.out.sel.ratio
        /\ rt_ab.out.percentage = rt_ba.out.percentage
        /\ GaugeMode => rt_ab.out.stdout = rt_ba.out.stdout

\* C8 amended: the two runs have the same ratio, the same truncated
\* percentage and the same exit status; in gauge mode their outputs are the
\* same when one cap is strictly smaller than the other, and when neither is
\* (a tie) they have the same gauge line while the numerator line of each
\* run is the denominator line of the other.
C8_SwapSymmetry ==
    BothRun =>
        /\ rt_ab.out.sel.ratio = rt_ba.out.sel.ratio
        /\ rt_ab.out.percentage = rt_ba.out.percentage
        /\ rt_ab.out.status = rt_ba.out.status
        /\ rt_ab.out.stderr = rt_ba.out.stderr
        /\ (GaugeMode /\ ~Tie) => rt_ab.out.stdout = rt_ba.out.stdout
        /\ (GaugeMode /\ Tie /\ rt_ab.out.status = 0) =>
              /\ Len(rt_ab.out.stdout) = 3
              /\ Len(rt_ba.out.stdout) = 3
              /\ rt_ab.out.stdout[1] = rt_ba.out.stdout[1]
              /\ rt_ab.out.stdout[2] = rt_ba.out.stdout[3]
              /\ rt_ab.out.stdout[3] = rt_ba.out.stdout[2]

C8_Witness ==
    /\ BothRun
    /\ GaugeMode
    /\ rt_in.asset_a = str_gold
    /\ rt_in.asset_b = str_dog
    /\ rt_in.left = F64OfInt(3)
    /\ rt_in.right = F64OfInt(3)
    /\ rt_ab.out.stdout[2].assets = <<str_dog>>
    /\ rt_ba.out.stdout[2].assets = <<str_gold>>
    /\ rt_ab.out.stdout[1] = rt_ba.out.stdout[1]

(***************************************************************************)
(* Properties of the three adapters on a response (SpecAdapter).           *)
(***************************************************************************)
PolygonCall == ad_call.adapter \in {"stock", "gold"}

Status2xx == 200 <= ad_call.o.status /\ ad_call.o.status <= 299

BodyRead == ad_call.o.sent /\ ad_call.o.read

\* the body is a JSON object with the keys status, request_id and message
HasErrorShape(doc) ==
    /\ doc.valid
    /\ doc.top = "object"
    /\ {"status", "request_id", "message"} \subseteq doc.keys

\* C11: for the equity and gold adapters a response that is not 2xx never
\* yields a market cap; when its body has the shape {status, request_id,
\* message} the result is the PolygonApi error carrying the message, and
\* when it has not the result is the UnexpectedStatus error.
C11_NonSuccessPolygon ==
    (PolygonCall /\ Returned /\ BodyRead /\ ~Status2xx) =>
        /\ ad_ret.result.tag # "Ok"
        /\ HasErrorShape(ParseJson(ad_call.o.body)) =>
              ad_ret.result = Err("PolygonApi",
                                  ParseJson(ad_call.o.body).message, NoString)
        /\ ~HasErrorShape(ParseJson(ad_call.o.body)) =>
              /\ ad_ret.result.tag = "Err"
              /\ ad_ret.result.kind = "UnexpectedStatus"

\* the first element of the body (equity: results; gold: results[0];
\* crypto: [0]) exists and has the load-bearing field
HasLoadBearing(doc) ==
    /\ doc.valid
    /\ doc.items # <<>>
    /\ CASE ad_call.adapter = "stock" ->
               doc.top = "object" /\ doc.rkind = "object"
               /\ "market_cap" \in doc.items[1].keys
         [] ad_call.adapter = "gold" ->
               doc.top = "object" /\ doc.rkind = "array"
               /\ "c" \in doc.items[1].keys
         [] ad_call.adapter = "crypto" ->
               doc.top = "array" /\ "market_cap" \in doc.items[1].keys
         [] OTHER -> FALSE

\* every field of the declared response type that is not an Option is in
\* the body, at the top and in every element
HasDeclaredFields(doc) ==
    /\ doc.valid
    /\ CASE ad_call.adapter = "stock" ->
               /\ doc.top = "object"
               /\ {"status", "request_id", "results"} \subseteq doc.keys
               /\ doc.rkind = "object"
               /\ \A i \in DOMAIN doc.items :
                     CompanyDetailsRequired \subseteq doc.items[i].keys
         [] ad_call.adapter = "gold" ->
               /\ doc.top = "object"
               /\ AggsTickerV2Required \subseteq doc.keys
               /\ doc.rkind = "array"
               /\ \A i \in DOMAIN doc.items :
                     OHCLRequired \subseteq doc.items[i].keys
         [] ad_call.adapter = "crypto" ->
               /\ doc.top = "array"
               /\ \A i \in DOMAIN doc.items :
                     CoingeckoRequired \subseteq doc.items[i].keys
         [] OTHER -> FALSE

\* the identifier a Deserialization error of the call carries
DecodedIdentifier ==
    IF ad_call.adapter = "gold" THEN str_XAUUSD ELSE ad_call.id

AdapterCallOn2xx ==
    /\ ad_call.adapter \in {"stock", "gold", "crypto"}
    /\ Returned
    /\ BodyRead
    /\ Status2xx

\* C12: on a 2xx response a body that has the load-bearing field gives the
\* market cap, whichever other fields are missing or added, and a body that
\* lacks it gives the Deserialization error.  The response types derive
\* Deserialize with no default, so a body that has the load-bearing field
\* and lacks another field that is not an Option (total_employees, address,
\* the o, h and l of a bar) gives the Deserialization error instead.
C12_LoadBearingFieldOnly ==
    AdapterCallOn2xx =>
        /\ HasLoadBearing(ParseJson(ad_call.o.body)) =>
              ad_ret.result.tag = "Ok"
        /\ ~HasLoadBearing(ParseJson(ad_call.o.body)) =>
              ad_ret.result = DeserializationErr(DecodedIdentifier)

\* C13: an adapter call that receives a 2xx response returns a market cap or
\* an error value and never panics; a gold body that decodes with an empty
\* results array and a crypto body other than "[]" that decodes to an empty
\* array give an error value.
C13_NoAbortOn2xx ==
    (ad_call.adapter \in {"stock", "gold", "crypto"} /\ Returned
        /\ ad_call.o.sent /\ Status2xx) =>
        /\ ad_ret.result.tag \in {"Ok", "Err"}
        /\ (BodyRead /\ HasDeclaredFields(ParseJson(ad_call.o.body))
               /\ ParseJson(ad_call.o.body).items = <<>>) =>
              ad_ret.result.tag = "Err"

====
